---- MODULE Spec2Model ----
(***************************************************************************)
(* A model of the fetch / embed core of the ingestion pipeline:            *)
(*   - ArxivDownloader (src/custom/extractors/arxiv/downloader.py) and the *)
(*     sequential batch loop of ArxivExtractor.extract that drives it,     *)
(*   - RateLimiter.throttle (src/custom/utils/resilience.py),              *)
(*   - JinaEmbeddingsService._post / embed_passages                        *)
(*     (src/custom/embedder/jina.py),                                      *)
(*   - PDFTransformer and DoclingEngine                                    *)
(*     (src/custom/transformers/arxiv/pdf/pdf_transformer.py, engine.py),  *)
(*   - TextChunker (src/custom/transformers/arxiv/text/chunker.py),        *)
(*   - JinaConnector and ArxivConnector (src/custom/connectors),           *)
(*   - RedisQueue (src/custom/queue/redis_client.py) and                   *)
(*     HealthConnectWorker.run_once                                        *)
(*     (src/custom/workers/healthconnect_worker.py).                       *)
(* Coroutines are modelled as tasks whose steps are the code between two   *)
(* suspension points (an await that really waits: a sleep, network I/O, a  *)
(* lock that is taken).  Time is kept relative: how long ago the last      *)
(* request was stamped and how long each sleeper still has to sleep; a     *)
(* Tick lets one unit of time pass for everybody.                          *)
(***************************************************************************)
EXTENDS Integers, Sequences, FiniteSets, TLC

\* ------------------------------------------------------------------ bounds
MaxCalls == 3       \* download() calls started in one run, all callers together
PayloadLen == 2     \* chunks a complete response body is streamed in
MaxThrottles == 4   \* throttle() calls started in one run, all callers together
MaxTexts == 3       \* length of the texts given to embed_passages
MaxBatch == 2       \* largest batch_size given to embed_passages
MaxDocs == 2        \* length of the pdf_paths given to one PDFTransformer
MaxConcurrency == 2 \* largest max_concurrency a PDFTransformer is configured with
MaxSections == 2    \* sections of the document given to the chunker
MaxSmallSections == 9   \* sections of the document of small sections only
MaxElements == 3    \* elements of the document whose sections are extracted
MaxConnCalls == 5   \* connect() and close() calls in one run, both connectors
MaxEvents == 3      \* push() calls in one run
MaxQueueCalls == 3  \* pop() and pop_batch() calls in one run
MaxRuns == 2        \* run_once() calls in one run

\* ----------------------------------------------- configuration of the code
max_retries == 2            \* ArxivDownloaderConfig.max_retries
rate_limit_delay == 2       \* ArxivDownloaderConfig.rate_limit_delay
MAX_RETRIES == 2            \* run_once: attempts of the loader
worker_batch_size == 2      \* HealthConnectWorker.batch_size
retry_backoff == 1          \* ArxivDownloaderConfig.retry_backoff
LongRetries == 4            \* a max_retries that lets a third attempt be retried

Tasks == {"t1", "t2"}       \* coroutines calling the same ArxivDownloader
Throttlers == {"a", "b", "c"}   \* coroutines calling the same RateLimiter
delay == 2                  \* RateLimiter.delay (delay_seconds)
DefaultBackoff == 10        \* base_backoff of the embeddings service: 1.0 s
jina_max_retries == 2       \* JinaEmbeddingsService.max_retries
Words == {"", "a"}          \* the passages that texts are made of: the empty
                            \* passage and another
Papers == {"p1", "p2"}      \* items, each with a pdf_url and an arxiv_id
max_pages == 10             \* DoclingConfig.max_pages
max_file_size_mb == 10      \* DoclingConfig.max_file_size_mb
\* DoclingEngine.__init__ line 50
max_file_size_bytes == max_file_size_mb * 1024 * 1024

None == -1                  \* Python's None where a time is expected

Min(a, b) == IF a < b THEN a ELSE b
Max(a, b) == IF a > b THEN a ELSE b

VARIABLES
    files,            \* files[p]: what is at <download_dir>/<arxiv_id>.pdf
    elapsed,          \* time.time() - self._last_request_time, counted up to
                      \* rate_limit_delay (the code never tells larger values
                      \* apart); None while _last_request_time is None
    dl,               \* dl[t]: the frame of task t's download() call (see Idle)
    calls,            \* download() calls started so far
    connCalls,        \* calls of self.connection() so far, one per pass of line 63
    local_pdf_path,   \* local_pdf_path[p]: paper["local_pdf_path"], what the last
                      \* finished download() of p returned ("unset" before)
    self_max_retries  \* self.max_retries of the downloader

dlVars == <<files, elapsed, dl, calls, connCalls, local_pdf_path,
            self_max_retries>>

\* RateLimiter (utils/resilience.py)
VARIABLES
    last_call,        \* time.time() - self.last_call, counted up to self.delay
    lock,             \* self.lock: the task holding it, or "free"
    waiters,          \* the tasks suspended in lock.acquire(), oldest first
    th,               \* th[t]: where task t is inside throttle(), and its sleep
    returns,          \* throttle() calls that have returned
    sinceReturn       \* time since the last return of a throttle() call, counted
                      \* up to self.delay; None before the first return

thVars == <<last_call, lock, waiters, th, returns, sinceReturn>>

\* JinaEmbeddingsService (embedder/jina.py), one embed_passages call
VARIABLES
    epc,              \* where the call is: "idle" (not started), "loop" (at the
                      \* for of line 160), "posting" (a request is in flight,
                      \* line 81), "sleeping" (in a sleep of _post), "returned",
                      \* "raised"
    texts,            \* the texts argument
    batch_size,       \* the batch_size argument
    i,                \* the loop variable of line 160
    payload,          \* the input of the payload built at line 163
    attempt_,         \* the loop variable of line 79
    embeddings,       \* the list of line 158
    posts,            \* the requests of the current (or last) _post call:
                      \* what each carried and how it was answered
    served,           \* every success response so far: the request's input and
                      \* the vectors of the response
    requests,         \* client.post() calls so far
    sleeps,           \* asyncio.sleep() calls of the current (or last) _post call
    base_backoff,     \* self.base_backoff, in tenths of a second
    delay_,           \* the delay _post is sleeping for, in tenths of a second
                      \* (None when it is not sleeping)
    result,           \* what embed_passages returned
    error             \* the exception that left embed_passages ("" if none)

emVars == <<epc, texts, batch_size, i, payload, attempt_, embeddings, posts,
           served, requests, sleeps, base_backoff, delay_, result, error>>

\* PDFTransformer (transformers/arxiv/pdf/pdf_transformer.py) and its
\* DoclingEngine (engine.py), one transformer and one __call__
VARIABLES
    pdf_paths,        \* self.pdf_paths: the inputs, each the file its path names
    max_concurrency,  \* DoclingConfig.max_concurrency
    semaphore,        \* self.semaphore: its _value and its _waiters, oldest first
    pt,               \* pt[k]: the frame of the coroutine that handles input k
                      \* (see NewTask)
    running,          \* the coroutine the event loop is running (it is inside
                      \* code that does not suspend), 0 if none
    callpc,           \* where __call__ is: "new", "gather", "returned"
    final_records,    \* what __call__ returned
    finished          \* the tasks of the batch that are over, in the order in which they ended

pdVars == <<pdf_paths, max_concurrency, semaphore, pt, running, callpc,
            final_records, finished>>

\* TextChunker (transformers/arxiv/text/chunker.py), one document
VARIABLES
    chunk_cfg,        \* self.chunk_size, self.overlap_size, self.min_chunk_size
    pdf,              \* the PdfContent: its sections and its raw_text
    ck                \* the frame of _chunk_pdf (see NewChunking)

ckVars == <<chunk_cfg, pdf, ck>>

\* The section extraction of DoclingEngine.parse_pdf (engine.py lines
\* 139-162), one converted document
VARIABLES
    elements,         \* doc.texts: the elements of the document, in order
    se                \* the frame of the extraction (see NewMerging)

seVars == <<elements, se>>

\* JinaConnector (connectors/jina.py) and ArxivConnector (connectors/arxiv.py),
\* one of each
VARIABLES
    cn                \* cn[c]: the connector and what was seen of it (see
                      \* NewConnector)

cnVars == <<cn>>

\* RedisQueue (queue/redis_client.py) and one HealthConnectWorker
\* (workers/healthconnect_worker.py)
VARIABLES
    redis,            \* the Redis lists queue_name (main) and failed_queue_name
                      \* (failed), each leftmost element first
    pushed,           \* push() calls so far
    qlog,             \* the pop() and pop_batch() calls so far: what each was
                      \* asked, the length of the queue it found, what it gave
    wk,               \* the worker: where run_once is and its locals (see
                      \* NewWorker)
    opensearch        \* the lists of documents the loader has indexed, in order

wkVars == <<redis, pushed, qlog, wk, opensearch>>

vars == <<dlVars, thVars, emVars, pdVars, ckVars, seVars, cnVars, wkVars>>

\* ------------------------------------------------------------ file system
NoFile == [exists |-> FALSE, data |-> <<>>]
\* open(path, "wb"): the file exists and is empty
Truncated == [exists |-> TRUE, data |-> <<>>]
\* every chunk of the payload, in place
CompleteFile == [exists |-> TRUE, data |-> [c \in 1..PayloadLen |-> TRUE]]

\* f.write(chunk) through a handle that has written k chunks so far: the chunk
\* lands at offset k+1; offsets the file does not have yet (another handle
\* truncated it meanwhile) are zero-filled holes (FALSE)
WriteChunk(file, k) ==
    [file EXCEPT !.data =
        [c \in 1..(IF Len(file.data) > k + 1 THEN Len(file.data) ELSE k + 1) |->
            IF c = k + 1 THEN TRUE
            ELSE IF c <= Len(file.data) THEN file.data[c]
            ELSE FALSE]]

\* --------------------------------------------------------- download frames
\* pc       where the task is: "idle" (not in download()), "rate_limit" (in the
\*          sleep of line 62), "attempt" (about to call client.stream),
\*          "streaming" (in the loop of line 106), "backoff" (in the sleep of
\*          line 119), "raised" (an exception left download())
\* paper    the item of the call;  force  its force argument
\* attempt  the loop variable of line 99
\* sleep    how long the task's asyncio.sleep still lasts
\* fpos     chunks written through the task's open file handle
\* streams  client.stream() calls of the call;  failed  attempts that raised
\* result   what the call returned: "path" or "None" ("" while it runs)
\*          (the last three stay readable after the call, until the next one)
Idle ==
    [pc |-> "idle", paper |-> "p1", force |-> FALSE, attempt |-> 0, sleep |-> 0,
     fpos |-> 0, streams |-> 0, failed |-> 0, result |-> ""]

\* ------------------------------------------------------------------- Init
\* ArxivDownloader.__init__ (lines 37-48); the download directory may hold
\* files that earlier runs downloaded
DownloadDir == [Papers -> {NoFile, CompleteFile}]

DownloaderWith(retries) ==
    /\ self_max_retries = retries
    /\ elapsed = None
    /\ dl = [t \in Tasks |-> Idle]
    /\ calls = 0
    /\ connCalls = 0
    /\ local_pdf_path = [p \in Papers |-> "unset"]

DownloaderNew == DownloaderWith(max_retries)

\* RateLimiter.__init__ (lines 29-31); last_call = 0 is the epoch, which is
\* longer ago than any delay
RateLimiterNew ==
    /\ last_call = delay
    /\ lock = "free"
    /\ waiters = <<>>
    /\ th = [t \in Throttlers |-> [pc |-> "idle", sleep |-> 0]]
    /\ returns = 0
    /\ sinceReturn = None

\* JinaEmbeddingsService.__init__ (lines 46-55), before embed_passages is called
NoResult == [returned |-> FALSE, value |-> <<>>]

EmbedderWith(b) ==
    /\ base_backoff = b
    /\ delay_ = None
    /\ epc = "idle"
    /\ texts = <<>>
    /\ batch_size = 1
    /\ i = 0
    /\ payload = <<>>
    /\ attempt_ = 0
    /\ embeddings = <<>>
    /\ posts = <<>>
    /\ served = <<>>
    /\ requests = 0
    /\ sleeps = 0
    /\ result = NoResult
    /\ error = ""

\* a service configured without backoff: the sleeps of _post take no time
EmbedderNew == EmbedderWith(0)

\* the base_backoff values a service is configured with
Bases == {0, 5, DefaultBackoff}

\* ------------------------------------------------------------- PDF files
\* What a path given to the transformer names.  exists and st_size are what
\* the file system says, head is what read(8) returns (the first bytes, at
\* most 8), pages is what len(pdfium.PdfDocument(path)) gives (Unreadable if
\* pdfium cannot load the document and raises), convert is what the Docling
\* conversion and the mapping of its output do with the file ("PdfContent"
\* if lines 131-208 get through, "raises" if anything in them raises).
Unreadable == None

Magic == <<"%", "P", "D", "F", "-">>
PdfHead == Magic \o <<"1", ".", "7">>
HtmlHead == <<"<", "h", "t", "m", "l", ">", "<", "b">>
ShortHead == <<"%", "P", "D", "F">>
Heads == {<<>>, ShortHead, PdfHead, HtmlHead}

Sizes == {0, Len(ShortHead), Len(PdfHead), max_file_size_bytes,
          max_file_size_bytes + 1}
PageCounts == {max_pages, max_pages + 1, Unreadable}

Missing ==
    [exists |-> FALSE, st_size |-> 0, head |-> <<>>, pages |-> Unreadable,
     convert |-> "raises"]

\* a file of fewer bytes than the signature is no document at all
Files ==
    {Missing} \cup
    {f \in [exists : {TRUE}, st_size : Sizes, head : Heads, pages : PageCounts,
            convert : {"PdfContent", "raises"}] :
        /\ Len(f.head) = Min(f.st_size, 8)
        /\ f.st_size < Len(Magic) => f.pages = Unreadable /\ f.convert = "raises"}

\* one file for each thing that can happen to an input of a batch
Good ==
    [exists |-> TRUE, st_size |-> max_file_size_bytes, head |-> PdfHead,
     pages |-> max_pages, convert |-> "PdfContent"]
BatchFiles ==
    {Missing, Good,
     [Good EXCEPT !.st_size = 0, !.head = <<>>, !.pages = Unreadable,
                  !.convert = "raises"],
     [Good EXCEPT !.st_size = max_file_size_bytes + 1],
     [Good EXCEPT !.head = HtmlHead],
     [Good EXCEPT !.pages = max_pages + 1],
     [Good EXCEPT !.pages = Unreadable, !.convert = "raises"],
     [Good EXCEPT !.convert = "raises"]}

\* every list of at most n elements of S
SeqsUpTo(S, n) == UNION {[1..m -> S] : m \in 0..n}

\* ------------------------------------------------------------ parse frames
\* pc        "none" (no coroutine yet), "created" (scheduled, not started),
\*           "waiting" (suspended in semaphore.acquire), "woken" (its acquire
\*           future has a result), "parse_pdf" (inside parse_pdf, before
\*           _validate_pdf), "convert" (inside parse_pdf, validation passed),
\*           "returned" (parse_pdf is returning or raising), "done"
\* reason    how _validate_pdf ended ("" before it ran)
\* converted whether self._converter.convert was called
\* outcome   how parse_pdf ended: "None", "PdfContent", "PDFParsingException"
\* value     what the caller of the coroutine gets (see NoValue)
NoValue == [type |-> "", metadata |-> 0]
NoneValue == [type |-> "NoneType", metadata |-> 0]
NewTask ==
    [pc |-> "none", reason |-> "", converted |-> FALSE, outcome |-> "",
     value |-> NoValue]

\* PDFTransformer.__init__ (lines 40-50)
PDFTransformerNew ==
    /\ semaphore = [value |-> max_concurrency, waiters |-> <<>>]
    /\ pt = [k \in DOMAIN pdf_paths |-> NewTask]
    /\ running = 0
    /\ callpc = "new"
    /\ final_records = <<>>
    /\ finished = <<>>

\* -------------------------------------------------------------------- text
\* A str is the sequence of its tokens: a word (a maximal run of
\* non-whitespace characters) is a positive number, a run of whitespace is SP
\* (" ") or NL ("\n\n").  Two words never stand next to each other.
SP == 0
NL == -1
isspace(tok) == tok <= 0

\* str.strip()
strip(text) ==
    LET solid(p) == ~isspace(text[p])
        inside == 1..Len(text)
    IN  IF \A p \in inside : ~solid(p) THEN <<>>
        ELSE SubSeq(text,
                 CHOOSE p \in inside : solid(p) /\ \A q \in 1..(p - 1) : ~solid(q),
                 CHOOSE p \in inside :
                     solid(p) /\ \A q \in (p + 1)..Len(text) : ~solid(q))

\* re.findall(r"\S+", text), and text.split(): the words of the text
findall(text) ==
    LET solid(tok) == ~isspace(tok)
    IN  SelectSeq(text, solid)

\* sep.join(parts[lo..hi])
RECURSIVE joinRange(_, _, _, _)
joinRange(sep, parts, lo, hi) ==
    IF lo > hi THEN <<>>
    ELSE IF lo = hi THEN parts[lo]
    ELSE LET mid == (lo + hi) \div 2
         IN  joinRange(sep, parts, lo, mid) \o sep
                 \o joinRange(sep, parts, mid + 1, hi)

\* sep.join(parts), for a list of str
join(sep, parts) == joinRange(sep, parts, 1, Len(parts))

\* a list of words as the list of the strs they are
Strs(ws) == [m \in 1..Len(ws) |-> <<ws[m]>>]

\* the text of n distinct words that source number j holds, its words one
\* space apart, with or without whitespace around it
MakeText(j, n, padded) ==
    LET body == join(<<SP>>, [m \in 1..n |-> <<10000 * j + m>>])
    IN  IF padded THEN <<NL>> \o body \o <<SP>> ELSE body

\* the numbers of words a section comes with: around the limits of lines 116
\* and 129
SectionWordCounts == {0, 99, 100, 800, 801}
\* the numbers of words a raw_text comes with
RawWordCounts == {0, 5, 6, 15, 150, 151, 801}

\* section j of a document: its title and its content
Section(j, n, padded) == [title |-> j, content |-> MakeText(j, n, padded)]

\* the documents: with sections (raw_text is not read then, line 87), or
\* without
Pdfs ==
    {[sections |-> [j \in 1..m |-> Section(j, wcs[j], padded)],
      raw_text |-> <<>>] :
        <<m, wcs, padded>> \in
            {<<m, wcs, padded>> \in (1..MaxSections) \X
                 SeqsUpTo(SectionWordCounts, MaxSections) \X BOOLEAN :
                 Len(wcs) = m}}
    \cup
    {[sections |-> <<>>, raw_text |-> MakeText(0, n, padded)] :
        n \in RawWordCounts, padded \in BOOLEAN}
    \cup
    {[sections |-> [j \in 1..MaxSmallSections |-> Section(j, 99, FALSE)],
      raw_text |-> <<>>]}

\* ChunkingConfig (schemas/arxiv.py lines 64-69): the defaults, and the
\* configuration of test_chunker.py, with and without overlap and with a
\* min_chunk_size above the sizes of the sections; the three fields are
\* plain ints without validators, so a negative overlap_size and a
\* chunk_size of 1 are configurations too
DefaultConfig == [chunk_size |-> 600, overlap_size |-> 120, min_chunk_size |-> 150]
Configs ==
    {DefaultConfig,
     [chunk_size |-> 10, overlap_size |-> 2, min_chunk_size |-> 5],
     [chunk_size |-> 10, overlap_size |-> 0, min_chunk_size |-> 20],
     [chunk_size |-> 600, overlap_size |-> 120, min_chunk_size |-> 900],
     [chunk_size |-> 10, overlap_size |-> -5, min_chunk_size |-> 5],
     [chunk_size |-> 1, overlap_size |-> 0, min_chunk_size |-> 0]}

\* configurations whose overlap is not below the chunk size
RejectedConfigs ==
    {[chunk_size |-> 10, overlap_size |-> 10, min_chunk_size |-> 5],
     [chunk_size |-> 10, overlap_size |-> 12, min_chunk_size |-> 5]}

\* the titles _chunk_by_sections and _chunk_raw_text give to chunks that are
\* not a section's own
Title(name) == [title |-> name, section |-> 0]
\* the title of section j
TitleOf(sec) == [title |-> "", section |-> sec.title]

\* ck.pc: "init" (the constructor has not run), "ValueError" (it raised),
\* "new" (the chunker exists, _chunk_pdf has not started), "sections" (in the
\* loop of _chunk_by_sections), "returned"
NewChunking ==
    [pc |-> "new", k |-> 0, chunks |-> <<>>, buffer |-> <<>>, buffer_wc |-> 0,
     idx |-> 0]

\* a chunker that TextChunker.__init__ (lines 37-49) has produced
TextChunkerNew ==
    /\ chunk_cfg.overlap_size < chunk_cfg.chunk_size
    /\ ck = NewChunking

\* --------------------------------------------------------------- elements
\* "\n", one line break
LF == -2
\* the str "Header/Intro", the one word it is
HeaderIntro == <<1000>>

\* The element at place p of a document: a heading (label title or
\* section_header) or an element of another label, with a text that is
\* empty, blank, a word (the word p) or a word with whitespace around it
ElementsAt(p) ==
    {[label |-> "title", text |-> <<p>>],
     [label |-> "section_header", text |-> <<SP, p, SP>>],
     [label |-> "text", text |-> <<>>],
     [label |-> "text", text |-> <<SP>>],
     [label |-> "text", text |-> <<p>>],
     [label |-> "list_item", text |-> <<SP, p, NL>>]}

\* the documents of at most n elements
Streams(n) ==
    UNION {{st \in [1..m -> UNION {ElementsAt(p) : p \in 1..m}] :
               \A p \in 1..m : st[p] \in ElementsAt(p)} : m \in 0..n}

\* lines 139-140: the empty list and the scratchpad; n is the number of
\* elements the loop of line 142 has been through
NewMerging ==
    [pc |-> "loop", n |-> 0, sections |-> <<>>,
     current |-> [title |-> HeaderIntro, content |-> <<>>]]

SectionsNew == se = NewMerging

\* ------------------------------------------------------------- connectors
Connectors == {"jina", "arxiv"}

\* _client is None or the client it holds (clients are numbered as they are
\* created); created counts the clients created, acloses the aclose() calls,
\* closing the close() calls that are suspended in aclose(); returned is what
\* the last connect() returned, fresh whether no connect() has returned since
\* the construction or since the last close() returned; calls counts the
\* calls of connect() and close()
NewConnector ==
    [client |-> None, created |-> 0, acloses |-> 0, closing |-> 0,
     returned |-> None, fresh |-> TRUE, calls |-> 0]

\* JinaConnector.__init__ (line 48), ArxivConnector.__init__ (line 39)
ConnectorsNew == cn = [c \in Connectors |-> NewConnector]

\* ---------------------------------------------- RedisQueue and the worker
\* HealthConnectWorker.__init__ (lines 27-43): metrics = Counter(); pc is
\* "idle" (run_once has not been called), "loading" (in the loop of line 78,
\* before the call of the loader), "returned"; raw_events, documents, attempt
\* are the locals of run_once, loads counts the calls of the loader of the
\* current run_once, runs the calls of run_once
NewWorker ==
    [pc |-> "idle", raw_events |-> <<>>, documents |-> <<>>, attempt |-> 0,
     loads |-> 0, runs |-> 0,
     metrics |-> [pulled |-> 0, transformed |-> 0, failed |-> 0,
                  indexed |-> 0, dlq |-> 0]]

\* RedisQueue.__init__ (lines 94-102) on an empty Redis, and a new worker
WorkerNew ==
    /\ redis = [main |-> <<>>, failed |-> <<>>]
    /\ pushed = 0
    /\ qlog = <<>>
    /\ wk = NewWorker
    /\ opensearch = <<>>

InitDownload ==
    /\ files \in DownloadDir
    /\ DownloaderNew
    /\ RateLimiterNew
    /\ EmbedderNew
    /\ pdf_paths = <<>>
    /\ max_concurrency = 1
    /\ PDFTransformerNew
    /\ chunk_cfg = DefaultConfig
    /\ pdf = [sections |-> <<>>, raw_text |-> <<>>]
    /\ TextChunkerNew
    /\ elements = <<>>
    /\ SectionsNew
    /\ ConnectorsNew
    /\ WorkerNew

InitThrottle ==
    /\ files = [p \in Papers |-> NoFile]
    /\ DownloaderNew
    /\ RateLimiterNew
    /\ EmbedderNew
    /\ pdf_paths = <<>>
    /\ max_concurrency = 1
    /\ PDFTransformerNew
    /\ chunk_cfg = DefaultConfig
    /\ pdf = [sections |-> <<>>, raw_text |-> <<>>]
    /\ TextChunkerNew
    /\ elements = <<>>
    /\ SectionsNew
    /\ ConnectorsNew
    /\ WorkerNew

InitEmbed ==
    /\ files = [p \in Papers |-> NoFile]
    /\ DownloaderNew
    /\ RateLimiterNew
    /\ EmbedderNew
    /\ pdf_paths = <<>>
    /\ max_concurrency = 1
    /\ PDFTransformerNew
    /\ chunk_cfg = DefaultConfig
    /\ pdf = [sections |-> <<>>, raw_text |-> <<>>]
    /\ TextChunkerNew
    /\ elements = <<>>
    /\ SectionsNew
    /\ ConnectorsNew
    /\ WorkerNew

\* a transformer given a batch of files, before __call__
InitParse ==
    /\ files = [p \in Papers |-> NoFile]
    /\ DownloaderNew
    /\ RateLimiterNew
    /\ EmbedderNew
    /\ pdf_paths \in SeqsUpTo(BatchFiles, MaxDocs)
    /\ max_concurrency \in 0..MaxConcurrency
    /\ PDFTransformerNew
    /\ chunk_cfg = DefaultConfig
    /\ pdf = [sections |-> <<>>, raw_text |-> <<>>]
    /\ TextChunkerNew
    /\ elements = <<>>
    /\ SectionsNew
    /\ ConnectorsNew
    /\ WorkerNew

\* an engine and one path, before parse_pdf(path) is called on it
InitEngine ==
    /\ files = [p \in Papers |-> NoFile]
    /\ DownloaderNew
    /\ RateLimiterNew
    /\ EmbedderNew
    /\ pdf_paths \in [1..1 -> Files]
    /\ max_concurrency = MaxConcurrency
    /\ PDFTransformerNew
    /\ chunk_cfg = DefaultConfig
    /\ pdf = [sections |-> <<>>, raw_text |-> <<>>]
    /\ TextChunkerNew
    /\ elements = <<>>
    /\ SectionsNew
    /\ ConnectorsNew
    /\ WorkerNew

\* a configuration and one document, before TextChunker(data, config) is
\* called
InitChunk ==
    /\ files = [p \in Papers |-> NoFile]
    /\ DownloaderNew
    /\ RateLimiterNew
    /\ EmbedderNew
    /\ pdf_paths = <<>>
    /\ max_concurrency = 1
    /\ PDFTransformerNew
    /\ chunk_cfg \in Configs \cup RejectedConfigs
    /\ pdf \in Pdfs
    /\ ck = [NewChunking EXCEPT !.pc = "init"]
    /\ elements = <<>>
    /\ SectionsNew
    /\ ConnectorsNew
    /\ WorkerNew

\* --------------------------------------------------------- ArxivDownloader
\* line 63 and lines 95-99: the timestamp is taken, the shared client is
\* fetched (ArxivConnector.connect never waits) and the retry loop is entered
PassGate(t, frame) ==
    /\ elapsed' = 0
    /\ connCalls' = connCalls + 1
    /\ dl' = [dl EXCEPT ![t] = [frame EXCEPT !.pc = "attempt", !.attempt = 1]]

\* (mutant) a caller that has to wait sleeps the whole delay
RateLimitFullDelay(t, frame) ==
    IF elapsed # None /\ elapsed < rate_limit_delay
    THEN /\ dl' = [dl EXCEPT ![t] =
                [frame EXCEPT !.pc = "rate_limit", !.sleep = rate_limit_delay]]
         /\ UNCHANGED <<elapsed, connCalls>>
    ELSE PassGate(t, frame)

\* lines 58-63, up to the first suspension point
RateLimit(t, frame) ==
    IF elapsed # None /\ elapsed < rate_limit_delay
    THEN /\ dl' = [dl EXCEPT ![t] =
                [frame EXCEPT !.pc = "rate_limit",
                              !.sleep = rate_limit_delay - elapsed]]
         /\ UNCHANGED <<elapsed, connCalls>>
    ELSE PassGate(t, frame)

\* download() returns: the frame is left (its counters stay readable) and
\* ArxivExtractor.extract line 74 records the result for the paper
Return(t, frame, value) ==
    /\ dl' = [dl EXCEPT ![t] =
                [Idle EXCEPT !.streams = frame.streams, !.failed = frame.failed,
                             !.result = value]]
    /\ local_pdf_path' = [local_pdf_path EXCEPT ![frame.paper] = value]

\* (mutant) the force flag is read the wrong way round
CacheHitForceInverted(p, f) == files[p].exists /\ f

\* lines 85-88: the cache check
CacheHit(p, f) == files[p].exists /\ ~f

\* download(paper, force) from its first line to its first suspension point
\* (lines 78-92; every paper of the model has a pdf_url and an arxiv_id)
Download(t, p, f) ==
    /\ dl[t].pc = "idle"
    /\ calls < MaxCalls
    /\ calls' = calls + 1
    /\ LET frame == [Idle EXCEPT !.paper = p, !.force = f]
       IN  IF CacheHit(p, f)
           THEN /\ Return(t, frame, "path")
                /\ UNCHANGED <<elapsed, connCalls>>
           ELSE /\ RateLimit(t, frame)
                /\ UNCHANGED local_pdf_path
    /\ UNCHANGED files
    /\ UNCHANGED <<self_max_retries, thVars, emVars, pdVars, ckVars, seVars,
                   cnVars, wkVars>>

\* line 62 returns: the sleep of _rate_limit is over
RateLimitWake(t) ==
    /\ dl[t].pc = "rate_limit"
    /\ dl[t].sleep = 0
    /\ PassGate(t, dl[t])
    /\ UNCHANGED <<files, calls, local_pdf_path>>
    /\ UNCHANGED <<self_max_retries, thVars, emVars, pdVars, ckVars, seVars,
                   cnVars, wkVars>>

\* (mutant) the exception of the last attempt is raised again
OnExceptionReraise(t, frame) ==
    IF frame.attempt = self_max_retries
    THEN /\ dl' = [dl EXCEPT ![t] = [frame EXCEPT !.failed = @ + 1, !.pc = "raised"]]
         /\ UNCHANGED local_pdf_path
    ELSE /\ dl' = [dl EXCEPT ![t] =
                [frame EXCEPT !.failed = @ + 1, !.pc = "backoff",
                              !.sleep = retry_backoff * frame.attempt]]
         /\ UNCHANGED local_pdf_path

\* lines 112-119: an attempt raised
OnException(t, frame) ==
    IF frame.attempt = self_max_retries
    THEN Return(t, [frame EXCEPT !.failed = @ + 1], "None")
    ELSE /\ dl' = [dl EXCEPT ![t] =
                [frame EXCEPT !.failed = @ + 1, !.pc = "backoff",
                              !.sleep = retry_backoff * frame.attempt]]
         /\ UNCHANGED local_pdf_path

\* lines 102-103 raise: the request or raise_for_status fails, no file is opened
RequestFails(t) ==
    /\ dl[t].pc = "attempt"
    /\ OnException(t, [dl[t] EXCEPT !.streams = @ + 1])
    /\ UNCHANGED <<files, elapsed, calls, connCalls>>
    /\ UNCHANGED <<self_max_retries, thVars, emVars, pdVars, ckVars, seVars,
                   cnVars, wkVars>>

\* line 105: open(pdf_path, "wb") on the final path
OpenFile(p) ==
    files' = [files EXCEPT ![p] = Truncated]

\* lines 102-105: the response arrives with a success status and the file is
\* opened for writing
RequestSucceeds(t) ==
    /\ dl[t].pc = "attempt"
    /\ OpenFile(dl[t].paper)
    /\ dl' = [dl EXCEPT ![t].streams = @ + 1, ![t].fpos = 0, ![t].pc = "streaming"]
    /\ UNCHANGED <<elapsed, calls, connCalls, local_pdf_path>>
    /\ UNCHANGED <<self_max_retries, thVars, emVars, pdVars, ckVars, seVars,
                   cnVars, wkVars>>

\* lines 106-107: one more chunk arrives and is written
ChunkArrives(t) ==
    /\ dl[t].pc = "streaming"
    /\ dl[t].fpos < PayloadLen
    /\ files' = [files EXCEPT ![dl[t].paper] = WriteChunk(@, dl[t].fpos)]
    /\ dl' = [dl EXCEPT ![t].fpos = @ + 1]
    /\ UNCHANGED <<elapsed, calls, connCalls, local_pdf_path>>
    /\ UNCHANGED <<self_max_retries, thVars, emVars, pdVars, ckVars, seVars,
                   cnVars, wkVars>>

\* what lines 112-119 do to the file the failed attempt was writing: nothing
DiscardPartial(p) ==
    UNCHANGED files

\* line 106 raises while the body is streamed: the with blocks close the file
\* and the response, and the except branch runs
StreamFails(t) ==
    /\ dl[t].pc = "streaming"
    /\ DiscardPartial(dl[t].paper)
    /\ OnException(t, dl[t])
    /\ UNCHANGED <<elapsed, calls, connCalls>>
    /\ UNCHANGED <<self_max_retries, thVars, emVars, pdVars, ckVars, seVars,
                   cnVars, wkVars>>

\* lines 106-110: the stream ends without error
StreamEnds(t) ==
    /\ dl[t].pc = "streaming"
    /\ dl[t].fpos = PayloadLen
    /\ Return(t, dl[t], "path")
    /\ UNCHANGED <<files, elapsed, calls, connCalls>>
    /\ UNCHANGED <<self_max_retries, thVars, emVars, pdVars, ckVars, seVars,
                   cnVars, wkVars>>

\* line 119 returns: the next iteration of the loop of line 99
BackoffWake(t) ==
    /\ dl[t].pc = "backoff"
    /\ dl[t].sleep = 0
    /\ dl' = [dl EXCEPT ![t].attempt = @ + 1, ![t].pc = "attempt"]
    /\ UNCHANGED <<files, elapsed, calls, connCalls, local_pdf_path>>
    /\ UNCHANGED <<self_max_retries, thVars, emVars, pdVars, ckVars, seVars,
                   cnVars, wkVars>>

\* one unit of time passes: the last request is one unit older and every
\* sleeper has one unit less to sleep (a sleep may last longer than asked:
\* a task whose sleep is over wakes at any later moment)
Tick ==
    /\ elapsed' = IF elapsed = None THEN None
                  ELSE Min(elapsed + 1, rate_limit_delay)
    /\ dl' = [t \in Tasks |-> [dl[t] EXCEPT !.sleep = Max(@ - 1, 0)]]
    /\ UNCHANGED <<files, calls, connCalls, local_pdf_path>>
    /\ UNCHANGED <<self_max_retries, thVars, emVars, pdVars, ckVars, seVars,
                   cnVars, wkVars>>

NextDownload ==
    \/ \E t \in Tasks, p \in Papers, f \in BOOLEAN :
          Download(t, p, f)
    \/ \E t \in Tasks : RateLimitWake(t)
    \/ \E t \in Tasks : RequestFails(t)
    \/ \E t \in Tasks : RequestSucceeds(t)
    \/ \E t \in Tasks : ChunkArrives(t)
    \/ \E t \in Tasks : StreamFails(t)
    \/ \E t \in Tasks : StreamEnds(t)
    \/ \E t \in Tasks : BackoffWake(t)
    \/ Tick

SpecDownload == InitDownload /\ [][NextDownload]_vars

\* ------------------------------------------------------------- RateLimiter
\* th[t].pc: "idle" (not in throttle()), "acquire" (suspended in
\* lock.acquire(), line 42), "sleep" (holding the lock, in the sleep of line 47)

\* line 48 and the end of the async with block: the time is stamped, the lock
\* is released and throttle() returns, without a suspension point in between
StampAndReturn(t) ==
    /\ last_call' = 0
    /\ lock' = "free"
    /\ th' = [th EXCEPT ![t] = [pc |-> "idle", sleep |-> 0]]
    /\ returns' = returns + 1
    /\ sinceReturn' = 0

\* lines 43-47, entered with the lock just taken by t
CriticalSection(t) ==
    IF last_call < delay
    THEN /\ th' = [th EXCEPT ![t] = [pc |-> "sleep", sleep |-> delay - last_call]]
         /\ lock' = t
         /\ UNCHANGED <<last_call, returns, sinceReturn>>
    ELSE StampAndReturn(t)

\* (mutant) no lock: every caller goes straight to the check
CanAcquireAlways == TRUE

\* asyncio.Lock.acquire takes the lock at once only when it is free and
\* nobody is queued for it
CanAcquire == lock = "free" /\ waiters = <<>>

\* throttle() is called (line 42): the lock is taken if it can be, else the
\* task queues for it
Throttle(t) ==
    /\ th[t].pc = "idle"
    /\ returns + Cardinality({u \in Throttlers : th[u].pc # "idle"}) < MaxThrottles
    /\ IF CanAcquire
       THEN /\ CriticalSection(t)
            /\ UNCHANGED waiters
       ELSE /\ th' = [th EXCEPT ![t] = [pc |-> "acquire", sleep |-> 0]]
            /\ waiters' = Append(waiters, t)
            /\ UNCHANGED <<last_call, lock, returns, sinceReturn>>
    /\ UNCHANGED <<dlVars, emVars, pdVars, ckVars, seVars, cnVars, wkVars>>

\* the released lock is handed to the oldest waiter
Acquire(t) ==
    /\ th[t].pc = "acquire"
    /\ lock = "free"
    /\ waiters # <<>> /\ Head(waiters) = t
    /\ waiters' = Tail(waiters)
    /\ CriticalSection(t)
    /\ UNCHANGED <<dlVars, emVars, pdVars, ckVars, seVars, cnVars, wkVars>>

\* line 47 returns
ThrottleWake(t) ==
    /\ th[t].pc = "sleep"
    /\ th[t].sleep = 0
    /\ StampAndReturn(t)
    /\ UNCHANGED waiters
    /\ UNCHANGED <<dlVars, emVars, pdVars, ckVars, seVars, cnVars, wkVars>>

\* one unit of time passes
ThrottleTick ==
    /\ last_call' = Min(last_call + 1, delay)
    /\ sinceReturn' = IF sinceReturn = None THEN None
                      ELSE Min(sinceReturn + 1, delay)
    /\ th' = [t \in Throttlers |-> [th[t] EXCEPT !.sleep = Max(@ - 1, 0)]]
    /\ UNCHANGED <<lock, waiters, returns>>
    /\ UNCHANGED <<dlVars, emVars, pdVars, ckVars, seVars, cnVars, wkVars>>

NextThrottle ==
    \/ \E t \in Throttlers : Throttle(t)
    \/ \E t \in Throttlers : Acquire(t)
    \/ \E t \in Throttlers : ThrottleWake(t)
    \/ ThrottleTick

SpecThrottle == InitThrottle /\ [][NextThrottle]_vars

\* ------------------------------------------------------ one caller at a time
\* a downloader with room for four attempts, used by one task for one paper
InitRetry ==
    /\ files = [p \in Papers |-> NoFile]
    /\ DownloaderWith(LongRetries)
    /\ RateLimiterNew
    /\ EmbedderNew
    /\ pdf_paths = <<>>
    /\ max_concurrency = 1
    /\ PDFTransformerNew
    /\ chunk_cfg = DefaultConfig
    /\ pdf = [sections |-> <<>>, raw_text |-> <<>>]
    /\ TextChunkerNew
    /\ elements = <<>>
    /\ SectionsNew
    /\ ConnectorsNew
    /\ WorkerNew

NextRetry ==
    \/ \E f \in BOOLEAN : Download("t1", "p1", f)
    \/ RateLimitWake("t1")
    \/ RequestFails("t1")
    \/ RequestSucceeds("t1")
    \/ ChunkArrives("t1")
    \/ StreamFails("t1")
    \/ StreamEnds("t1")
    \/ BackoffWake("t1")
    \/ Tick

SpecRetry == InitRetry /\ [][NextRetry]_vars

\* a downloader without retries and a RateLimiter, each called by one task,
\* one call after the other
InitSequential ==
    /\ files = [p \in Papers |-> NoFile]
    /\ DownloaderWith(1)
    /\ RateLimiterNew
    /\ EmbedderNew
    /\ pdf_paths = <<>>
    /\ max_concurrency = 1
    /\ PDFTransformerNew
    /\ chunk_cfg = DefaultConfig
    /\ pdf = [sections |-> <<>>, raw_text |-> <<>>]
    /\ TextChunkerNew
    /\ elements = <<>>
    /\ SectionsNew
    /\ ConnectorsNew
    /\ WorkerNew

NextSequential ==
    \/ \E f \in BOOLEAN : Download("t1", "p1", f)
    \/ RateLimitWake("t1")
    \/ RequestFails("t1")
    \/ RequestSucceeds("t1")
    \/ ChunkArrives("t1")
    \/ StreamFails("t1")
    \/ StreamEnds("t1")
    \/ Tick
    \/ Throttle("a")
    \/ ThrottleWake("a")
    \/ ThrottleTick

SpecSequential == InitSequential /\ [][NextSequential]_vars

\* --------------------------------------------------- JinaEmbeddingsService
\* An answer to client.post: an HTTP response with a status, or a transport
\* exception (httpx.TimeoutException, another httpx.HTTPError)
\* retry_after is the number of the response's Retry-After header, in tenths
\* of a second, None if it has no such header
Response(status) == [kind |-> "response", status |-> status, retry_after |-> None]
Timeout == [kind |-> "timeout", status |-> 0, retry_after |-> None]
NetworkError == [kind |-> "network", status |-> 0, retry_after |-> None]
Pending == [kind |-> "pending", status |-> 0, retry_after |-> None]
\* a 429 that says when to come back: "Retry-After: 0", "Retry-After: 3"
RetryAfters == {0, 30}
Hinted(h) == [Response(429) EXCEPT !.retry_after = h]
Answers == {Response(200), Response(404), Response(429), Response(500),
            Response(599), Timeout, NetworkError}

\* the provider's vector for a passage, and a response with one vector per input
Vec(x) == <<"vec", x>>
Embed(input) == [k \in 1..Len(input) |-> Vec(input[k])]
\* the data a success response may carry: one vector per input, or (a
\* misbehaving provider) one vector too few
Datas(input) ==
    {Embed(input)} \cup
    (IF input = <<>> THEN {} ELSE {Embed(SubSeq(input, 1, Len(input) - 1))})

\* (mutant) the slice is one passage short
SliceShort(ts, from, b) == SubSeq(ts, from + 1, Min(from + b, Len(ts)) - 1)

\* line 161: texts[i : i + batch_size]
Slice(ts, from, b) == SubSeq(ts, from + 1, Min(from + b, Len(ts)))

\* (mutant) every error status is retried
ClassifyRetryAnyStatus(ans) ==
    IF ans.kind = "response" /\ ans.status \in 200..299 THEN "ok" ELSE "retry"

\* (mutant) httpx.TimeoutException is not caught
ClassifyTimeoutEscapes(ans) ==
    IF ans.kind = "timeout" THEN "fatal"
    ELSE IF ans.kind = "network" THEN "retry"
    ELSE IF ans.status = 429 THEN "retry"
    ELSE IF ans.status \in 200..299 THEN "ok"
    ELSE IF 500 <= ans.status /\ ans.status < 600 THEN "retry"
    ELSE "fatal"

\* lines 84-117: what _post does with an answer: "ok" (return response.json()),
\* "retry" (sleep, next attempt) or "fatal" (raise)
Classify(ans) ==
    IF ans.kind = "timeout" THEN "retry"                    \* line 96
    ELSE IF ans.kind = "network" THEN "retry"               \* line 114
    ELSE IF ans.status = 429 THEN "retry"                   \* line 84
    ELSE IF ans.status \in 200..299 THEN "ok"               \* lines 92-93
    ELSE IF 500 <= ans.status /\ ans.status < 600 THEN "retry"   \* line 105
    ELSE "fatal"                                            \* line 111

RECURSIVE Pow2(_)
Pow2(n) == IF n = 0 THEN 1 ELSE 2 * Pow2(n - 1)

\* (mutant) the delay does not grow with the attempts
compute_backoffFlat(a, b) == {b + jitter : jitter \in 0..((3 * b) \div 10)}

\* _compute_backoff (lines 134-136): what it may return at attempt a with
\* base_backoff b; random.uniform(0, base * 0.3) is any tenth of a second in
\* its range
compute_backoff(a, b) ==
    LET base == b * Pow2(a - 1)
    IN  {base + jitter : jitter \in 0..((3 * base) \div 10)}

\* (mutant) the Retry-After header is not read
DelaysComputedOnly(ans, a, b) ==
    IF ans.status = 429 THEN {b * Pow2(a - 1)} ELSE compute_backoff(a, b)

\* lines 85-86, 97, 106 and 115: the delays _post may sleep for after an
\* answer it retries
Delays(ans, a, b) ==
    IF ans.kind = "response" /\ ans.status = 429
    THEN IF ans.retry_after # None THEN {ans.retry_after}
         ELSE {b * Pow2(a - 1)}
    ELSE compute_backoff(a, b)

\* the exception a fatal answer leaves _post with
Raised(ans) ==
    IF ans.kind = "response" THEN "HTTPStatusError" ELSE "TimeoutException"

\* (mutant) the loop stops one attempt early
InRangeOneLess(a) == a < jina_max_retries

\* line 79: range(1, self.max_retries + 1)
InRange(a) == 1 <= a /\ a <= jina_max_retries

\* embed_passages(texts, batch_size) is called (lines 157-158)
EmbedPassages(ts, b) ==
    /\ epc = "idle"
    /\ texts' = ts
    /\ batch_size' = b
    /\ embeddings' = <<>>
    /\ i' = 0
    /\ epc' = "loop"
    /\ UNCHANGED <<payload, attempt_, posts, served, requests, sleeps,
                   base_backoff, delay_, result, error>>
    /\ UNCHANGED <<dlVars, thVars, pdVars, ckVars, seVars, cnVars, wkVars>>

\* client.post(url, json=payload), line 81
Post(a, input) ==
    /\ posts' = (IF a = 1 THEN <<>> ELSE posts)
                    \o <<[input |-> input, answer |-> Pending]>>
    /\ requests' = requests + 1
    /\ attempt_' = a
    /\ delay_' = None
    /\ epc' = "posting"

\* line 160 with more texts to go: lines 161-172 up to the first request
NextBatch ==
    /\ epc = "loop"
    /\ i < Len(texts)
    /\ payload' = Slice(texts, i, batch_size)
    /\ sleeps' = 0
    /\ IF InRange(1)
       THEN /\ Post(1, Slice(texts, i, batch_size))
            /\ UNCHANGED error
       ELSE /\ error' = "RuntimeError"
            /\ epc' = "raised"
            /\ posts' = <<>>
            /\ UNCHANGED <<attempt_, requests, delay_>>
    /\ UNCHANGED <<texts, batch_size, i, embeddings, served, base_backoff,
                   result>>
    /\ UNCHANGED <<dlVars, thVars, pdVars, ckVars, seVars, cnVars, wkVars>>

\* line 160 with no text left: lines 179-180
ReturnEmbeddings ==
    /\ epc = "loop"
    /\ i >= Len(texts)
    /\ result' = [returned |-> TRUE, value |-> embeddings]
    /\ epc' = "returned"
    /\ UNCHANGED <<texts, batch_size, i, payload, attempt_, embeddings, posts,
                   served, requests, sleeps, base_backoff, delay_, error>>
    /\ UNCHANGED <<dlVars, thVars, pdVars, ckVars, seVars, cnVars, wkVars>>

\* the answer is written next to the request it answers
Answered(ans) ==
    [posts EXCEPT ![Len(posts)].answer = ans]

\* the request in flight is answered (lines 81-117, and 174-175 on success)
Respond(ans, data) ==
    /\ epc = "posting"
    /\ posts' = Answered(ans)
    /\ CASE Classify(ans) = "ok" ->
              /\ embeddings' = embeddings \o data
              /\ served' = Append(served, [input |-> payload, data |-> data])
              /\ i' = i + batch_size
              /\ epc' = "loop"
              /\ UNCHANGED <<sleeps, delay_, error>>
         [] Classify(ans) = "retry" ->
              /\ sleeps' = sleeps + 1
              /\ delay_' \in Delays(ans, attempt_, base_backoff)
              /\ epc' = "sleeping"
              /\ UNCHANGED <<embeddings, served, i, error>>
         [] OTHER ->
              /\ error' = Raised(ans)
              /\ epc' = "raised"
              /\ UNCHANGED <<embeddings, served, i, sleeps, delay_>>
    /\ UNCHANGED <<texts, batch_size, payload, attempt_, requests, base_backoff,
                   result>>
    /\ UNCHANGED <<dlVars, thVars, pdVars, ckVars, seVars, cnVars, wkVars>>

\* (mutant) after the last attempt _post returns an empty response instead of
\* raising, and embed_passages goes on with the next slice
OnExhaustedSkip ==
    /\ i' = i + batch_size
    /\ epc' = "loop"
    /\ delay_' = None
    /\ UNCHANGED <<error, attempt_, posts, requests>>

\* line 119: the loop is over
OnExhausted ==
    /\ error' = "RuntimeError"
    /\ epc' = "raised"
    /\ delay_' = None
    /\ UNCHANGED <<i, attempt_, posts, requests>>

\* a sleep of _post is over: the next iteration of line 79, or line 119
Wake ==
    /\ epc = "sleeping"
    /\ IF InRange(attempt_ + 1)
       THEN /\ Post(attempt_ + 1, payload)
            /\ UNCHANGED <<i, error>>
       ELSE OnExhausted
    /\ UNCHANGED <<texts, batch_size, payload, embeddings, served, sleeps,
                   base_backoff, result>>
    /\ UNCHANGED <<dlVars, thVars, pdVars, ckVars, seVars, cnVars, wkVars>>

NextEmbed ==
    \/ \E n \in 0..MaxTexts, b \in 1..MaxBatch :
          \E ts \in [1..n -> Words] :
             EmbedPassages(ts, b)
    \/ NextBatch
    \/ ReturnEmbeddings
    \/ \E ans \in Answers : \E data \in Datas(payload) :
          Respond(ans, data)
    \/ Wake

SpecEmbed == InitEmbed /\ [][NextEmbed]_vars

\* one embed_passages call for one passage, by a service with a base_backoff,
\* whose provider may answer 429 with a Retry-After header
InitPost ==
    /\ files = [p \in Papers |-> NoFile]
    /\ DownloaderNew
    /\ RateLimiterNew
    /\ \E b \in Bases : EmbedderWith(b)
    /\ pdf_paths = <<>>
    /\ max_concurrency = 1
    /\ PDFTransformerNew
    /\ chunk_cfg = DefaultConfig
    /\ pdf = [sections |-> <<>>, raw_text |-> <<>>]
    /\ TextChunkerNew
    /\ elements = <<>>
    /\ SectionsNew
    /\ ConnectorsNew
    /\ WorkerNew

NextPost ==
    \/ EmbedPassages(<<"a">>, 1)
    \/ NextBatch
    \/ ReturnEmbeddings
    \/ \E ans \in Answers \cup {Hinted(h) : h \in RetryAfters} :
          \E data \in Datas(payload) :
             Respond(ans, data)
    \/ Wake

SpecPost == InitPost /\ [][NextPost]_vars

\* ------------------------------------------------------- asyncio.Semaphore
\* The semaphore and the frames go together through these operators, as
\* st = [sem |-> ..., pt |-> ...]: waking a waiter changes both.

\* the waiters whose future has no result yet, oldest first
Sleepers(st) ==
    LET Waiting(k) == st.pt[k].pc = "waiting"
    IN  SelectSeq(st.sem.waiters, Waiting)

\* (mutant) a slot is always thought to be free
lockedNever(sem) == FALSE

\* Semaphore.locked(): no slot is left, or somebody is waiting already
locked(sem) == sem.value = 0 \/ sem.waiters # <<>>

\* Semaphore._wake_up_next(): the oldest waiter still asleep gets the slot
wake_up_next(st) ==
    IF Sleepers(st) = <<>>
    THEN st
    ELSE [sem |-> [st.sem EXCEPT !.value = @ - 1],
          pt  |-> [st.pt EXCEPT ![Head(Sleepers(st))].pc = "woken"]]

\* the loop that ends acquire(): as many waiters are woken as slots are free
RECURSIVE wake_up_all(_)
wake_up_all(st) ==
    IF st.sem.value > 0 /\ Sleepers(st) # <<>>
    THEN wake_up_all(wake_up_next(st))
    ELSE st

\* Semaphore.release(), called when the async with block of line 107 is left
release(st) == wake_up_next([st EXCEPT !.sem.value = @ + 1])

\* ------------------------------------------------------------ DoclingEngine
\* f.read(8).startswith(b"%PDF-") of line 100
read(f, n) == SubSeq(f.head, 1, Min(n, Len(f.head)))
startswith(bytes, prefix) ==
    /\ Len(bytes) >= Len(prefix)
    /\ SubSeq(bytes, 1, Len(prefix)) = prefix

\* the messages of the PDFValidationError of lines 90, 94, 96, 101, 109
ValidationErrors ==
    {"File not found", "Empty PDF file", "PDF exceeds size limit",
     "Invalid PDF header", "Exceeds max pages"}

\* (mutant) the signature is looked at before the size
validate_pdfHeaderFirst(f) ==
    IF ~f.exists THEN "File not found"
    ELSE IF ~startswith(read(f, 8), Magic) THEN "Invalid PDF header"
    ELSE IF f.st_size = 0 THEN "Empty PDF file"
    ELSE IF f.st_size > max_file_size_bytes THEN "PDF exceeds size limit"
    ELSE IF f.pages = Unreadable THEN "PdfiumError"
    ELSE IF f.pages > max_pages THEN "Exceeds max pages"
    ELSE "passed"

\* _validate_pdf (lines 89-109): the exception it raises, "passed" if none.
\* "PdfiumError" is what pdfium.PdfDocument raises at line 104 for a file it
\* cannot load; it is no PDFValidationError.
validate_pdf(f) ==
    IF ~f.exists THEN "File not found"
    ELSE IF f.st_size = 0 THEN "Empty PDF file"
    ELSE IF f.st_size > max_file_size_bytes THEN "PDF exceeds size limit"
    ELSE IF ~startswith(read(f, 8), Magic) THEN "Invalid PDF header"
    ELSE IF f.pages = Unreadable THEN "PdfiumError"
    ELSE IF f.pages > max_pages THEN "Exceeds max pages"
    ELSE "passed"

\* the except clauses of parse_pdf (lines 210-215): how the call ends when e
\* was raised inside the try block
Handler(e) ==
    IF e \in ValidationErrors THEN "None" ELSE "PDFParsingException"

\* parse_pdf(pdf_paths[k]) called on the engine directly; the call runs to
\* its end without suspending
ParsePdf(k) ==
    /\ callpc = "new"
    /\ running = 0
    /\ pt[k].pc = "none"
    /\ pt' = [pt EXCEPT ![k].pc = "parse_pdf"]
    /\ running' = k
    /\ UNCHANGED <<pdf_paths, max_concurrency, semaphore, callpc, final_records,
                   finished>>
    /\ UNCHANGED <<dlVars, thVars, emVars, ckVars, seVars, cnVars, wkVars>>

\* lines 126-128, and lines 210-215 if _validate_pdf raises
Validate(k) ==
    /\ running = k
    /\ pt[k].pc = "parse_pdf"
    /\ LET e == validate_pdf(pdf_paths[k])
       IN  pt' = [pt EXCEPT ![k] =
                    IF e = "passed"
                    THEN [@ EXCEPT !.reason = e, !.pc = "convert"]
                    ELSE [@ EXCEPT !.reason = e, !.pc = "returned",
                                   !.outcome = Handler(e)]]
    /\ UNCHANGED <<pdf_paths, max_concurrency, semaphore, running, callpc,
                   final_records, finished>>
    /\ UNCHANGED <<dlVars, thVars, emVars, ckVars, seVars, cnVars, wkVars>>

\* lines 131-208, and lines 213-215 if the converter or the mapping raises
Convert(k) ==
    /\ running = k
    /\ pt[k].pc = "convert"
    /\ pt' = [pt EXCEPT ![k] =
                [@ EXCEPT !.converted = TRUE, !.pc = "returned",
                          !.outcome = IF pdf_paths[k].convert = "raises"
                                      THEN Handler("converter error")
                                      ELSE "PdfContent"]]
    /\ UNCHANGED <<pdf_paths, max_concurrency, semaphore, running, callpc,
                   final_records, finished>>
    /\ UNCHANGED <<dlVars, thVars, emVars, ckVars, seVars, cnVars, wkVars>>

\* the direct caller of parse_pdf gets its result or its exception
ParsePdfReturns(k) ==
    /\ callpc = "new"
    /\ running = k
    /\ pt[k].pc = "returned"
    /\ pt' = [pt EXCEPT ![k].pc = "done",
                        ![k].value = [type |-> pt[k].outcome, metadata |-> k]]
    /\ running' = 0
    /\ UNCHANGED <<pdf_paths, max_concurrency, semaphore, callpc, final_records,
                   finished>>
    /\ UNCHANGED <<dlVars, thVars, emVars, ckVars, seVars, cnVars, wkVars>>

NextEngine ==
    \/ \E k \in DOMAIN pdf_paths : ParsePdf(k)
    \/ \E k \in DOMAIN pdf_paths : Validate(k)
    \/ \E k \in DOMAIN pdf_paths : Convert(k)
    \/ \E k \in DOMAIN pdf_paths : ParsePdfReturns(k)

SpecEngine == InitEngine /\ [][NextEngine]_vars

\* ----------------------------------------------------------- PDFTransformer
\* lines 116-122: the record made of the metadata of input k and the parsed
\* content, as transform() returns it
Record(k) == [type |-> "dict", metadata |-> k]

\* __call__ up to its await (lines 61-71)
Call ==
    /\ callpc = "new"
    /\ IF pdf_paths = <<>>
       THEN /\ callpc' = "returned"
            /\ final_records' = <<>>
            /\ UNCHANGED pt
       ELSE /\ callpc' = "gather"
            /\ pt' = [k \in DOMAIN pdf_paths |-> [pt[k] EXCEPT !.pc = "created"]]
            /\ UNCHANGED final_records
    /\ UNCHANGED <<pdf_paths, max_concurrency, semaphore, running, finished>>
    /\ UNCHANGED <<dlVars, thVars, emVars, ckVars, seVars, cnVars, wkVars>>

\* The event loop runs coroutine k from where it is suspended: from its start
\* (lines 95-107: the path check, then semaphore.acquire, which suspends if
\* the semaphore is locked) or from the await inside acquire() once its
\* future has a result.  What follows the acquire does not suspend.
TaskStep(k) ==
    /\ callpc = "gather"
    /\ running = 0
    /\ pt[k].pc \in {"created", "woken"}
    /\ IF pt[k].pc = "created"
       THEN IF ~pdf_paths[k].exists
            THEN /\ pt' = [pt EXCEPT ![k].pc = "done", ![k].value = NoneValue]
                 /\ finished' = Append(finished, k)
                 /\ UNCHANGED <<semaphore, running>>
            ELSE IF ~locked(semaphore)
                 THEN /\ semaphore' = [semaphore EXCEPT !.value = @ - 1]
                      /\ pt' = [pt EXCEPT ![k].pc = "parse_pdf"]
                      /\ running' = k
                      /\ UNCHANGED finished
                 ELSE /\ semaphore' = [semaphore EXCEPT !.waiters = Append(@, k)]
                      /\ pt' = [pt EXCEPT ![k].pc = "waiting"]
                      /\ UNCHANGED <<running, finished>>
       ELSE LET NotMe(w) == w # k
                st == wake_up_all(
                        [sem |-> [semaphore EXCEPT
                                    !.waiters = SelectSeq(@, NotMe)],
                         pt  |-> [pt EXCEPT ![k].pc = "parse_pdf"]])
            IN  /\ semaphore' = st.sem
                /\ pt' = st.pt
                /\ running' = k
                /\ UNCHANGED finished
    /\ UNCHANGED <<pdf_paths, max_concurrency, callpc, final_records>>
    /\ UNCHANGED <<dlVars, thVars, emVars, ckVars, seVars, cnVars, wkVars>>

\* lines 110-129 after parse_pdf has ended: a PdfContent becomes a record,
\* None stays None, an exception is caught at line 127 and becomes None (the
\* clause of line 124 never runs: parse_pdf raises no PDFValidationError);
\* the async with block releases the semaphore and the coroutine is over
TaskFinish(k) ==
    /\ callpc = "gather"
    /\ running = k
    /\ pt[k].pc = "returned"
    /\ LET st == release(
                    [sem |-> semaphore,
                     pt  |-> [pt EXCEPT ![k].pc = "done",
                                        ![k].value =
                                            IF pt[k].outcome = "PdfContent"
                                            THEN Record(k) ELSE NoneValue]])
       IN  /\ semaphore' = st.sem
           /\ pt' = st.pt
    /\ running' = 0
    /\ finished' = Append(finished, k)
    /\ UNCHANGED <<pdf_paths, max_concurrency, callpc, final_records>>
    /\ UNCHANGED <<dlVars, thVars, emVars, ckVars, seVars, cnVars, wkVars>>

\* (mutant) the first failure ends the batch
SurvivorsUntilFailure(results) ==
    LET Failed == {k \in DOMAIN results : results[k].type # "dict"}
    IN  IF Failed = {} THEN results
        ELSE SubSeq(results, 1, (CHOOSE k \in Failed : \A j \in Failed : k <= j) - 1)

\* lines 73-80: the results that are records, in the order of the results
Survivors(results) ==
    LET isdict(res) == res.type = "dict"
    IN  SelectSeq(results, isdict)

\* (mutant) the results come in the order in which the tasks ended, as
\* asyncio.as_completed gives them
gatherAsCompleted(values, order) == [n \in DOMAIN order |-> values[order[n]]]

\* asyncio.gather(*tasks, return_exceptions=True) of line 71: the result of
\* each awaitable at the place of the awaitable in the arguments, whatever
\* the order in which they ended
gather(values, order) == values

\* asyncio.gather has every result (line 71) and __call__ returns
Gather ==
    /\ callpc = "gather"
    /\ \A k \in DOMAIN pdf_paths : pt[k].pc = "done"
    /\ final_records' =
          Survivors(gather([k \in DOMAIN pdf_paths |-> pt[k].value], finished))
    /\ callpc' = "returned"
    /\ UNCHANGED <<pdf_paths, max_concurrency, semaphore, pt, running, finished>>
    /\ UNCHANGED <<dlVars, thVars, emVars, ckVars, seVars, cnVars, wkVars>>

NextParse ==
    \/ Call
    \/ \E k \in DOMAIN pdf_paths : TaskStep(k)
    \/ \E k \in DOMAIN pdf_paths : Validate(k)
    \/ \E k \in DOMAIN pdf_paths : Convert(k)
    \/ \E k \in DOMAIN pdf_paths : TaskFinish(k)
    \/ Gather

SpecParse == InitParse /\ [][NextParse]_vars

\* the event loop runs every coroutine that is ready, and each parse call
\* comes to its end: a step that can be taken is taken
SpecParseFair == SpecParse /\ WF_vars(NextParse)

\* -------------------------------------------------------------- TextChunker
\* (mutant) every chunk is said to overlap the one before it
OverlapWithPreviousAlways(cfg, idx) == cfg.overlap_size

\* line 204
OverlapWithPrevious(cfg, idx) == IF idx > 0 THEN cfg.overlap_size ELSE 0

\* _build_chunk (lines 194-207); start_char and end_char, which count
\* characters, are left out
build_chunk(cfg, text, idx, section_title) ==
    [text |-> text,
     chunk_index |-> idx,
     section_title |-> section_title,
     word_count |-> Len(findall(text)),
     overlap_with_previous |-> OverlapWithPrevious(cfg, idx),
     overlap_with_next |-> cfg.overlap_size]

\* (mutant) the window moves on by its whole size
StepWholeWindow(cfg) == cfg.chunk_size

\* line 176: how far the window moves
Step(cfg) == cfg.chunk_size - cfg.overlap_size

\* the while loop of lines 166-176: pos takes the values 0, step, 2 * step,
\* ... that are below len(words); the pass that starts at pos is pass number
\* pos / step, with current_idx = start_idx + pos / step
Positions(cfg, words) == {pos \in 0..(Len(words) - 1) : pos % Step(cfg) = 0}

Windows(cfg, words, start_idx, section_title) ==
    [c \in 1..Cardinality(Positions(cfg, words)) |->
        LET pos == (c - 1) * Step(cfg)
            end == Min(pos + cfg.chunk_size, Len(words))
            part == join(<<SP>>, Strs(SubSeq(words, pos + 1, end)))
        IN  build_chunk(cfg, part, start_idx + c - 1, section_title)]

\* _chunk_raw_text (lines 160-178)
chunk_raw_text(cfg, text, start_idx, section_title) ==
    LET words == findall(text)
    IN  IF Len(words) <= cfg.min_chunk_size
        THEN <<build_chunk(cfg, text, start_idx, section_title)>>
        ELSE Windows(cfg, words, start_idx, section_title)

\* (mutant) an overlap as large as the chunk is let through
GuardStrict(cfg) == cfg.overlap_size > cfg.chunk_size

\* line 48
Guard(cfg) == cfg.overlap_size >= cfg.chunk_size

\* TextChunker.__init__ (lines 37-49)
TextChunkerInit ==
    /\ ck.pc = "init"
    /\ ck' = IF Guard(chunk_cfg) THEN [ck EXCEPT !.pc = "ValueError"]
             ELSE NewChunking
    /\ UNCHANGED <<chunk_cfg, pdf>>
    /\ UNCHANGED <<dlVars, thVars, emVars, pdVars, seVars, cnVars, wkVars>>

\* _chunk_pdf (lines 85-90): a document without sections is chunked as raw
\* text, for one with sections _chunk_by_sections starts (lines 105-108)
ChunkPdf ==
    /\ ck.pc = "new"
    /\ ck' = IF pdf.sections # <<>>
             THEN [ck EXCEPT !.pc = "sections"]
             ELSE [ck EXCEPT !.pc = "returned",
                             !.chunks = chunk_raw_text(chunk_cfg, pdf.raw_text,
                                                       0, Title("Body"))]
    /\ UNCHANGED <<chunk_cfg, pdf>>
    /\ UNCHANGED <<dlVars, thVars, emVars, pdVars, seVars, cnVars, wkVars>>

\* (mutant) a section of 100 words is still tiny
IsTinyInclusive(wc) == wc <= 100

\* line 116
IsTiny(wc) == wc < 100

\* (mutant) the index moves on by one after a section that was sliced
AdvanceByOne(idx, split_chunks) == idx + 1

\* line 137
Advance(idx, split_chunks) == idx + Len(split_chunks)

\* one pass of the loop of lines 110-137, for the next section
ReadSection ==
    /\ ck.pc = "sections"
    /\ ck.k < Len(pdf.sections)
    /\ LET sec == pdf.sections[ck.k + 1]
           text == strip(sec.content)
           wc == Len(findall(text))
           flushed ==
               IF ck.buffer # <<>>
               THEN [ck EXCEPT
                       !.chunks = Append(@,
                           build_chunk(chunk_cfg, join(<<NL>>, ck.buffer), ck.idx,
                                       Title("Combined Intro/Small Sections"))),
                       !.idx = @ + 1, !.buffer = <<>>, !.buffer_wc = 0]
               ELSE ck
           split_chunks ==
               chunk_raw_text(chunk_cfg, text, flushed.idx, TitleOf(sec))
       IN  ck' = IF IsTiny(wc)
                 THEN [ck EXCEPT !.buffer = Append(@, text),
                                 !.buffer_wc = @ + wc, !.k = @ + 1]
                 ELSE IF 100 <= wc /\ wc <= 800
                 THEN [flushed EXCEPT
                         !.chunks = Append(@,
                             build_chunk(chunk_cfg, text, flushed.idx, TitleOf(sec))),
                         !.idx = @ + 1, !.k = @ + 1]
                 ELSE [flushed EXCEPT
                         !.chunks = @ \o split_chunks,
                         !.idx = Advance(@, split_chunks), !.k = @ + 1]
    /\ UNCHANGED <<chunk_cfg, pdf>>
    /\ UNCHANGED <<dlVars, thVars, emVars, pdVars, seVars, cnVars, wkVars>>

\* lines 139-143: the loop is over
FinalFlush ==
    /\ ck.pc = "sections"
    /\ ck.k = Len(pdf.sections)
    /\ ck' = IF ck.buffer # <<>>
             THEN [ck EXCEPT
                     !.chunks = Append(@,
                         build_chunk(chunk_cfg, join(<<NL>>, ck.buffer), ck.idx,
                                     Title("Trailing Sections"))),
                     !.pc = "returned"]
             ELSE [ck EXCEPT !.pc = "returned"]
    /\ UNCHANGED <<chunk_cfg, pdf>>
    /\ UNCHANGED <<dlVars, thVars, emVars, pdVars, seVars, cnVars, wkVars>>

NextChunk ==
    \/ TextChunkerInit
    \/ ChunkPdf
    \/ ReadSection
    \/ FinalFlush

SpecChunk == InitChunk /\ [][NextChunk]_vars

\* ----------------------------------------- DoclingEngine: section extraction
\* (mutant) only the document title starts a section
IsHeadingTitleOnly(el) == el.label = "title"

\* line 143
IsHeading(el) == el.label \in {"title", "section_header"}

\* lines 145-149 and 160-161: the scratchpad becomes a section if its content
\* is not blank
Flush(frame) ==
    IF strip(frame.current.content) # <<>>
    THEN [frame EXCEPT !.sections =
             Append(@, [title |-> frame.current.title,
                        content |-> strip(frame.current.content)])]
    ELSE frame

\* one pass of the loop of lines 142-157
ReadElement ==
    /\ se.pc = "loop"
    /\ se.n < Len(elements)
    /\ LET el == elements[se.n + 1]
       IN  se' = IF IsHeading(el)
                 THEN [Flush(se) EXCEPT
                         !.current = [title |-> strip(el.text), content |-> <<>>],
                         !.n = @ + 1]
                 ELSE IF el.text # <<>>
                 THEN [se EXCEPT !.current.content = @ \o el.text \o <<LF>>,
                                 !.n = @ + 1]
                 ELSE [se EXCEPT !.n = @ + 1]
    /\ UNCHANGED elements
    /\ UNCHANGED <<dlVars, thVars, emVars, pdVars, ckVars, cnVars, wkVars>>

\* lines 160-162: the loop is over
EndOfElements ==
    /\ se.pc = "loop"
    /\ se.n = Len(elements)
    /\ se' = [Flush(se) EXCEPT !.pc = "returned"]
    /\ UNCHANGED elements
    /\ UNCHANGED <<dlVars, thVars, emVars, pdVars, ckVars, cnVars, wkVars>>

\* a converted document, before line 139
InitSections ==
    /\ files = [p \in Papers |-> NoFile]
    /\ DownloaderNew
    /\ RateLimiterNew
    /\ EmbedderNew
    /\ pdf_paths = <<>>
    /\ max_concurrency = 1
    /\ PDFTransformerNew
    /\ chunk_cfg = DefaultConfig
    /\ pdf = [sections |-> <<>>, raw_text |-> <<>>]
    /\ TextChunkerNew
    /\ elements \in Streams(MaxElements)
    /\ SectionsNew
    /\ ConnectorsNew
    /\ WorkerNew

NextSections ==
    \/ ReadElement
    \/ EndOfElements

SpecSections == InitSections /\ [][NextSections]_vars

\* ------------------------------------------- JinaConnector, ArxivConnector
\* (mutant) connect() makes a client whenever it is called
NeedsClientAlways(c) == TRUE

\* jina.py line 96, arxiv.py line 64: if self._client is None
NeedsClient(c) == cn[c].client = None

\* connect() (jina.py lines 96-98, arxiv.py lines 64-70); _create_client does
\* not suspend
Connect(c) ==
    /\ cn["jina"].calls + cn["arxiv"].calls < MaxConnCalls
    /\ LET k == cn[c]
       IN  cn' = [cn EXCEPT ![c] =
                   IF NeedsClient(c)
                   THEN [k EXCEPT !.client = k.created + 1, !.created = @ + 1,
                                  !.returned = k.created + 1, !.fresh = FALSE,
                                  !.calls = @ + 1]
                   ELSE [k EXCEPT !.returned = k.client, !.fresh = FALSE,
                                  !.calls = @ + 1]]
    /\ UNCHANGED <<dlVars, thVars, emVars, pdVars, ckVars, seVars, wkVars>>

\* close() up to its suspension point (jina.py lines 106-108, arxiv.py lines
\* 83-85): with a client it calls aclose() and waits, without one it returns
Close(c) ==
    /\ cn["jina"].calls + cn["arxiv"].calls < MaxConnCalls
    /\ cn' = [cn EXCEPT ![c] =
                IF cn[c].client # None
                THEN [@ EXCEPT !.acloses = @ + 1, !.closing = @ + 1,
                               !.calls = @ + 1]
                ELSE [@ EXCEPT !.calls = @ + 1]]
    /\ UNCHANGED <<dlVars, thVars, emVars, pdVars, ckVars, seVars, wkVars>>

\* aclose() is done: jina.py line 109, arxiv.py line 86
CloseReturns(c) ==
    /\ cn[c].closing > 0
    /\ cn' = [cn EXCEPT ![c] =
                [@ EXCEPT !.client = None, !.closing = @ - 1, !.fresh = TRUE]]
    /\ UNCHANGED <<dlVars, thVars, emVars, pdVars, ckVars, seVars, wkVars>>

InitConnect ==
    /\ files = [p \in Papers |-> NoFile]
    /\ DownloaderNew
    /\ RateLimiterNew
    /\ EmbedderNew
    /\ pdf_paths = <<>>
    /\ max_concurrency = 1
    /\ PDFTransformerNew
    /\ chunk_cfg = DefaultConfig
    /\ pdf = [sections |-> <<>>, raw_text |-> <<>>]
    /\ TextChunkerNew
    /\ elements = <<>>
    /\ SectionsNew
    /\ ConnectorsNew
    /\ WorkerNew

NextConnect ==
    \/ \E c \in Connectors : Connect(c)
    \/ \E c \in Connectors : Close(c)
    \/ \E c \in Connectors : CloseReturns(c)

SpecConnect == InitConnect /\ [][NextConnect]_vars

\* ---------------------------------------------------------------- RedisQueue
\* the record the extractor pushes for activity n (extractors/healthconnect.py
\* lines 57-66): event_time is a datetime; complete says whether the record
\* has every field HealthEventDocument requires
Event(n, ok) == [activity_id |-> n, event_time |-> "datetime", complete |-> ok]

\* _serialize (lines 108-117): a datetime becomes its isoformat() string
serialize(obj) ==
    [obj EXCEPT !.event_time = IF @ = "datetime" THEN "isoformat" ELSE @]

\* json.dumps and json.loads: a payload is the text of one JSON value
dumps(obj) == [json |-> obj]
loads(raw) == raw.json

\* LPUSH: the new element becomes the leftmost one
lpush(list, element) == <<element>> \o list

\* RPOP: the rightmost element, or None (nil) for an empty list, and what is
\* left
rpop(list) ==
    IF list = <<>> THEN [nil |-> TRUE, raw |-> <<>>, rest |-> <<>>]
    ELSE [nil |-> FALSE, raw |-> list[Len(list)],
          rest |-> SubSeq(list, 1, Len(list) - 1)]

\* RedisQueue.push (lines 121-123)
Push(item) ==
    /\ pushed < MaxEvents
    /\ redis' = [redis EXCEPT !.main = lpush(@, dumps(serialize(item)))]
    /\ pushed' = pushed + 1
    /\ UNCHANGED <<qlog, wk, opensearch>>
    /\ UNCHANGED <<dlVars, thVars, emVars, pdVars, ckVars, seVars, cnVars>>

\* RedisQueue.pop (lines 127-130): RPOP, then "if raw: return None" returns
\* None for a payload that was popped, and json.loads(None) raises TypeError
\* for the None of an empty queue
Pop ==
    /\ Len(qlog) < MaxQueueCalls
    /\ LET r == rpop(redis.main)
       IN  /\ redis' = [redis EXCEPT !.main = r.rest]
           /\ qlog' = Append(qlog,
                  [op |-> "pop", k |-> 1, size |-> Len(redis.main),
                   raised |-> r.nil,
                   items |-> <<>>])
    /\ UNCHANGED <<pushed, wk, opensearch>>
    /\ UNCHANGED <<dlVars, thVars, emVars, pdVars, ckVars, seVars, cnVars>>

\* the loop of pop_batch (lines 137-146): up to batch_size RPOPs, the loop
\* ending at the first None; the items in the order they were popped
pop_batch(list, k) ==
    LET n == Min(Max(k, 0), Len(list))
    IN  [items |-> [j \in 1..n |-> loads(list[Len(list) - j + 1])],
         rest |-> SubSeq(list, 1, Len(list) - n)]

\* RedisQueue.pop_batch(k)
PopBatch(k) ==
    /\ Len(qlog) < MaxQueueCalls
    /\ LET b == pop_batch(redis.main, k)
       IN  /\ redis' = [redis EXCEPT !.main = b.rest]
           /\ qlog' = Append(qlog,
                  [op |-> "pop_batch", k |-> k, size |-> Len(redis.main),
                   raised |-> FALSE, items |-> b.items])
    /\ UNCHANGED <<pushed, wk, opensearch>>
    /\ UNCHANGED <<dlVars, thVars, emVars, pdVars, ckVars, seVars, cnVars>>

\* RedisQueue.push_failed (lines 150-152), for each record of a list in turn
RECURSIVE push_failed(_, _)
push_failed(list, records) ==
    IF records = <<>> THEN list
    ELSE push_failed(lpush(list, dumps(serialize(Head(records)))), Tail(records))

InitQueue ==
    /\ files = [p \in Papers |-> NoFile]
    /\ DownloaderNew
    /\ RateLimiterNew
    /\ EmbedderNew
    /\ pdf_paths = <<>>
    /\ max_concurrency = 1
    /\ PDFTransformerNew
    /\ chunk_cfg = DefaultConfig
    /\ pdf = [sections |-> <<>>, raw_text |-> <<>>]
    /\ TextChunkerNew
    /\ elements = <<>>
    /\ SectionsNew
    /\ ConnectorsNew
    /\ WorkerNew

NextQueue ==
    \/ Push(Event(pushed + 1, TRUE))
    \/ Pop
    \/ \E k \in 0..MaxEvents : PopBatch(k)

SpecQueue == InitQueue /\ [][NextQueue]_vars

\* ------------------------------------------------------ HealthConnectWorker
\* HealthConnectTransformer.__call__ (transformer.py lines 24-43): one
\* document for each record HealthEventDocument accepts, in order; a record
\* it refuses is logged and left out
transformer(data) ==
    LET accepted(raw) == raw.complete
        kept == SelectSeq(data, accepted)
    IN  [n \in DOMAIN kept |->
            [_id |-> kept[n].activity_id, _source |-> kept[n]]]

\* run_once up to the loop of line 78 (lines 49-75)
RunOnce ==
    /\ wk.pc \in {"idle", "returned"}
    /\ wk.runs < MaxRuns
    /\ LET b == pop_batch(redis.main, worker_batch_size)
           raw_events == b.items
           documents == transformer(raw_events)
           called == [wk EXCEPT !.runs = @ + 1, !.raw_events = raw_events,
                                !.documents = <<>>, !.attempt = 0, !.loads = 0,
                                !.pc = "returned"]
       IN  /\ redis' = [redis EXCEPT !.main = b.rest]
           /\ qlog' = Append(qlog,
                  [op |-> "pop_batch", k |-> worker_batch_size,
                   size |-> Len(redis.main), raised |-> FALSE,
                   items |-> b.items])
           /\ wk' = IF raw_events = <<>> THEN called
                    ELSE IF documents = <<>>
                    THEN [called EXCEPT
                            !.metrics.pulled = @ + Len(raw_events),
                            !.metrics.failed = @ + Len(raw_events)]
                    ELSE [called EXCEPT
                            !.metrics.pulled = @ + Len(raw_events),
                            !.metrics.transformed = @ + Len(documents),
                            !.documents = documents,
                            !.attempt = 1, !.pc = "loading"]
    /\ UNCHANGED <<pushed, opensearch>>
    /\ UNCHANGED <<dlVars, thVars, emVars, pdVars, ckVars, seVars, cnVars>>

\* one pass of the loop of lines 78-96: the loader indexes the documents and
\* run_once returns, or it raises and run_once sleeps; after the last pass
\* every record of raw_events goes to the failed queue (lines 98-102)
Load(success) ==
    /\ wk.pc = "loading"
    /\ IF success
       THEN /\ opensearch' = Append(opensearch, wk.documents)
            /\ wk' = [wk EXCEPT !.loads = @ + 1,
                                !.metrics.indexed = @ + Len(wk.documents),
                                !.pc = "returned"]
            /\ UNCHANGED redis
       ELSE IF wk.attempt < MAX_RETRIES
       THEN /\ wk' = [wk EXCEPT !.loads = @ + 1, !.attempt = @ + 1]
            /\ UNCHANGED <<redis, opensearch>>
       ELSE /\ redis' = [redis EXCEPT !.failed = push_failed(@, wk.raw_events)]
            /\ wk' = [wk EXCEPT !.loads = @ + 1,
                                !.metrics.dlq = @ + Len(wk.raw_events),
                                !.pc = "returned"]
            /\ UNCHANGED opensearch
    /\ UNCHANGED <<pushed, qlog>>
    /\ UNCHANGED <<dlVars, thVars, emVars, pdVars, ckVars, seVars, cnVars>>

NextWorker ==
    \/ \E ok \in BOOLEAN : Push(Event(pushed + 1, ok))
    \/ RunOnce
    \/ \E success \in BOOLEAN : Load(success)

SpecWorker == InitQueue /\ [][NextWorker]_vars

\* ----------------------------------------------------------------- claims
\* A step of task t that leaves download()
Returns(t) == dl[t].pc # "idle" /\ dl'[t].pc = "idle"

\* C1: whatever is at an item's final cached path is the complete payload of
\* a stream that ended without error; an empty or truncated file is never
\* visible there
C1_CachedFileIsComplete ==
    \A p \in Papers : files[p].exists => files[p] = CompleteFile

C4_GatePassesSpaced ==
    [][connCalls' # connCalls =>
          (elapsed = None \/ elapsed >= rate_limit_delay)]_vars

\* C10: download() never raises and opens at most max_retries streams; a call
\* whose attempts all failed opened exactly max_retries streams and returned
\* None; what extract records for the paper is what the call returned, and the
\* caller is free to go on with the next paper
C10_ExhaustionReturnsNone ==
    /\ [](\A t \in Tasks :
            /\ dl[t].pc # "raised"
            /\ dl[t].streams <= max_retries
            /\ dl[t].failed <= dl[t].streams
            /\ (dl[t].pc = "idle" /\ dl[t].streams > 0
                    /\ dl[t].failed = dl[t].streams)
                  => (dl[t].streams = max_retries /\ dl[t].result = "None")
            /\ dl[t].result = "None"
                  => (dl[t].failed = max_retries /\ dl[t].streams = max_retries))
    /\ [][\A t \in Tasks :
            Returns(t) => local_pdf_path'[dl[t].paper] = dl'[t].result]_vars

\* C10 witness: one paper failed after max_retries streams, and another paper
\* was downloaded all the same
C10_Witness ==
    /\ \E t \in Tasks :
          dl[t].pc = "idle" /\ dl[t].result = "None" /\ dl[t].streams = max_retries
    /\ local_pdf_path["p1"] = "None"
    /\ local_pdf_path["p2"] = "path"
    /\ files["p2"] = CompleteFile

\* C3: whatever the number of concurrent callers and the interleaving, a
\* throttle() call returns at least delay after the previous return
C3_ReturnsSpaced ==
    [][returns' # returns => (sinceReturn = None \/ sinceReturn >= delay)]_vars

\* C3 witness: callers competed for the limiter (one slept with the lock while
\* another was queued behind it) and several calls have returned
C3_Witness ==
    /\ returns >= 2
    /\ \E t, u \in Throttlers : th[t].pc = "sleep" /\ th[u].pc = "acquire"

\* ------------------------------------------------- claims on the embedder
\* ceil(len(texts) / batch_size)
NumSlices == (Len(texts) + batch_size - 1) \div batch_size

\* texts[j*b : (j+1)*b], slice j counted from 0
ExpectedSlice(j) ==
    [k \in 1..Min(batch_size, Len(texts) - j * batch_size) |->
        texts[j * batch_size + k]]

\* the vectors of the success responses, one response after the other
RECURSIVE ConcatData(_)
ConcatData(log) ==
    IF log = <<>> THEN <<>>
    ELSE ConcatData(SubSeq(log, 1, Len(log) - 1)) \o log[Len(log)].data

\* the failures the claims call retryable, and those they call fatal
ClaimRetryable(ans) ==
    \/ ans \in {Timeout, NetworkError}
    \/ ans.kind = "response" /\ (ans.status = 429 \/ ans.status \in 500..599)
ClaimFatal(ans) ==
    ans.kind = "response" /\ ans.status \in 400..499 /\ ans.status # 429
Success(ans) == ans.kind = "response" /\ ans.status = 200

\* C5: the success responses answer, in order, the slices texts[j*b:(j+1)*b];
\* no request carries an empty input; requests go one at a time; when the call
\* returns every one of the ceil(n/b) slices was served, the result is the
\* concatenation of the responses' vectors, a run without failures made
\* exactly ceil(n/b) requests, and with one vector per input result[k] is the
\* vector of texts[k]
C5_PartitionAndAlignment ==
    /\ Len(served) <= NumSlices
    /\ \A j \in 1..Len(served) :
          served[j].input = ExpectedSlice(j - 1) /\ served[j].input # <<>>
    /\ \A j \in 1..Len(posts) :
          /\ posts[j].input # <<>>
          /\ posts[j].answer = Pending => (j = Len(posts) /\ epc = "posting")
    /\ epc \in {"posting", "sleeping"} => payload = ExpectedSlice(Len(served))
    /\ texts = <<>> => requests = 0
    /\ epc = "returned" =>
          /\ Len(served) = NumSlices
          /\ result.value = ConcatData(served)
          /\ requests = Len(served) => requests = NumSlices
          /\ (\A j \in 1..Len(served) : served[j].data = Embed(served[j].input))
                => /\ Len(result.value) = Len(texts)
                   /\ \A k \in 1..Len(texts) : result.value[k] = Vec(texts[k])

\* C5 witness: three texts in batches of two, two requests, aligned vectors
C5_Witness ==
    /\ epc = "returned"
    /\ Len(texts) = 3 /\ batch_size = 2 /\ texts[1] # texts[3]
    /\ requests = 2
    /\ result.value = <<Vec(texts[1]), Vec(texts[2]), Vec(texts[3])>>

\* C6: a call that returns has a success response for every slice; a call
\* that raises returns nothing, failed on the slice after the served ones and
\* sends no request afterwards
C6_NoSliceSkipped ==
    /\ [](epc = "returned" =>
            /\ result.returned
            /\ Len(served) = NumSlices
            /\ \A j \in 1..NumSlices : served[j].input = ExpectedSlice(j - 1))
    /\ [](epc = "raised" =>
            /\ result = NoResult
            /\ error # ""
            /\ Len(served) < NumSlices
            /\ posts # <<>>
            /\ posts[Len(posts)].input = ExpectedSlice(Len(served))
            /\ ~Success(posts[Len(posts)].answer))
    /\ [][epc = "raised" => requests' = requests /\ result' = result]_vars

\* C6 witness: the call raised on a later slice, after earlier slices had
\* produced vectors, and returned none of them
C6_Witness ==
    /\ epc = "raised"
    /\ Len(served) >= 1
    /\ embeddings # <<>>
    /\ result = NoResult

\* C7: when _post returns, its requests were k < max_retries retryable
\* failures followed by one success, k+1 requests in all, each carrying the
\* slice's payload, and the vectors of the success are the slice's vectors; a
\* retryable failure with attempts left never ends the call
C7_RetryUntilSuccess ==
    /\ (epc = "loop" /\ requests > 0) =>
          LET k == Len(posts) - 1 IN
          /\ k >= 0 /\ k < jina_max_retries
          /\ attempt_ = k + 1
          /\ \A j \in 1..k : ClaimRetryable(posts[j].answer)
          /\ Success(posts[k + 1].answer)
          /\ \A j \in 1..(k + 1) : posts[j].input = payload
          /\ served[Len(served)].input = payload
          /\ LET data == served[Len(served)].data IN
             SubSeq(embeddings, Len(embeddings) - Len(data) + 1, Len(embeddings))
                = data
    /\ epc = "raised" =>
          ~(ClaimRetryable(posts[Len(posts)].answer)
                /\ Len(posts) < jina_max_retries)

\* C7 witness: a slice was served at the last attempt, after retryable failures
C7_Witness ==
    /\ epc = "loop"
    /\ Len(posts) = jina_max_retries
    /\ ClaimRetryable(posts[1].answer)
    /\ Success(posts[Len(posts)].answer)
    /\ embeddings # <<>>

\* C8: _post never sends more than max_retries requests for a slice; when all
\* max_retries were answered with retryable failures it raises RuntimeError,
\* and RuntimeError is raised in no other case
C8_RetryExhaustion ==
    /\ Len(posts) <= jina_max_retries
    /\ error = "RuntimeError" =>
          /\ epc = "raised"
          /\ Len(posts) = jina_max_retries
          /\ \A j \in 1..Len(posts) : ClaimRetryable(posts[j].answer)
    /\ (Len(posts) = jina_max_retries
            /\ \A j \in 1..Len(posts) : ClaimRetryable(posts[j].answer))
          => /\ epc \in {"sleeping", "raised"}
             /\ epc = "raised" => error = "RuntimeError"

\* C8 witness: every attempt of a slice failed with a retryable failure
C8_Witness ==
    /\ epc = "raised"
    /\ error = "RuntimeError"
    /\ requests = jina_max_retries

\* C9: a 4xx answer other than 429 is the last request of the call: _post
\* raises the HTTP error on that attempt, without a sleep, at any attempt number
C9_FatalClientError ==
    \A j \in 1..Len(posts) :
        ClaimFatal(posts[j].answer) =>
            /\ j = Len(posts)
            /\ epc = "raised"
            /\ error = "HTTPStatusError"
            /\ sleeps = j - 1

\* C9 witness: the first request of a slice was answered 404 and the call
\* raised with attempts left
C9_Witness ==
    /\ epc = "raised"
    /\ error = "HTTPStatusError"
    /\ Len(posts) = 1
    /\ attempt_ < jina_max_retries


\* C11: a download() that had no cached file (a call with force false that got
\* past the cache check) and fails while streaming leaves no file behind: the
\* partial file is discarded by the failing attempt, so that a later
\* download(paper, force=False) is not a cache hit
C11_FailedStreamLeavesNoFile ==
    [][\A t \in Tasks :
          (/\ dl[t].pc = "streaming"
           /\ ~dl[t].force
           /\ dl'[t].failed = dl[t].failed + 1)
              => ~files'[dl[t].paper].exists]_vars


\* The coroutines that are inside the engine's parse_pdf call
Inside ==
    {k \in DOMAIN pdf_paths : pt[k].pc \in {"parse_pdf", "convert", "returned"}}

\* C12: at no instant are more than max_concurrency coroutines of a batch
\* inside parse_pdf; a coroutine that reaches the semaphore when no slot is
\* free suspends, and a suspended coroutine goes on only in a step in which
\* another coroutine has left parse_pdf and released its slot, or after one
C12_ParseConcurrencyCap ==
    /\ [](Cardinality(Inside) <= max_concurrency)
    /\ [][\A k \in DOMAIN pdf_paths :
            /\ (/\ pt[k].pc = "created"
                /\ pt'[k].pc # "created"
                /\ pdf_paths[k].exists
                /\ Cardinality(Inside) >= max_concurrency)
                   => pt'[k].pc = "waiting"
            /\ (pt[k].pc = "waiting" /\ pt'[k].pc # "waiting")
                   => \E j \in DOMAIN pdf_paths \ {k} :
                         j \in Inside /\ pt'[j].pc = "done"]_vars

\* a coroutine is parsing, every slot is taken and another coroutine has not
\* started yet
C12_Witness ==
    /\ max_concurrency >= 1
    /\ Cardinality(Inside) = max_concurrency
    /\ \E k \in Inside : pt[k].pc = "convert"
    /\ \E j \in DOMAIN pdf_paths : pt[j].pc = "created" /\ pdf_paths[j].exists

\* C13: when the external parser raises for a document of a batch, what the
\* batch gets for that document is not the None that a validation skip gives
C13_ParseFailureSurfaced ==
    \A k \in DOMAIN pdf_paths :
        (/\ callpc # "new"
         /\ pt[k].pc = "done"
         /\ pt[k].converted
         /\ pt[k].outcome = "PDFParsingException")
            => pt[k].value # NoneValue

\* The four checks of the validator, as conditions on the file
Check(n, f) ==
    CASE n = 1 -> f.exists
      [] n = 2 -> f.st_size > 0 /\ f.st_size <= max_file_size_bytes
      [] n = 3 -> startswith(f.head, Magic)
      [] n = 4 -> f.pages # Unreadable /\ f.pages <= max_pages

ValidationPasses(f) == \A n \in 1..4 : Check(n, f)

\* C14: a parse_pdf call that has ended returned None without calling the
\* converter if the file does not pass validation, raised PDFParsingException
\* if the file passes validation and the converter or the mapping raises, and
\* returned a PdfContent otherwise
C14_EngineOutcomes ==
    \A k \in DOMAIN pdf_paths :
        pt[k].pc \in {"returned", "done"} =>
            LET f == pdf_paths[k]
            IN  IF ~ValidationPasses(f)
                THEN pt[k].outcome = "None" /\ ~pt[k].converted
                ELSE IF f.convert = "raises"
                     THEN pt[k].outcome = "PDFParsingException"
                     ELSE pt[k].outcome = "PdfContent"

\* The inputs whose parse succeeds
ParseSucceeds(f) == ValidationPasses(f) /\ f.convert = "PdfContent"

\* C15: when __call__ has returned, every coroutine of the batch has run to
\* its end and the result holds exactly one record for each input whose parse
\* succeeded, whatever happened to the other inputs
C15_FailureIsolation ==
    callpc = "returned" =>
        /\ \A k \in DOMAIN pdf_paths : pt[k].pc = "done"
        /\ \A j \in DOMAIN final_records :
              /\ final_records[j].type = "dict"
              /\ final_records[j].metadata \in DOMAIN pdf_paths
              /\ ParseSucceeds(pdf_paths[final_records[j].metadata])
        /\ \A k \in DOMAIN pdf_paths :
              ParseSucceeds(pdf_paths[k]) =>
                  Cardinality({j \in DOMAIN final_records :
                                  final_records[j].metadata = k}) = 1

\* a batch of two has returned one record: the parser raised for one input
\* and the other one survived
C15_Witness ==
    /\ callpc = "returned"
    /\ Len(pdf_paths) = 2
    /\ Len(final_records) = 1
    /\ \E k \in DOMAIN pdf_paths :
          pt[k].converted /\ pt[k].outcome = "PDFParsingException"

\* The reasons a check can give
ReasonsOf(n) ==
    CASE n = 1 -> {"File not found"}
      [] n = 2 -> {"Empty PDF file", "PDF exceeds size limit"}
      [] n = 3 -> {"Invalid PDF header"}
      [] n = 4 -> {"Exceeds max pages"}

FailingChecks(f) == {n \in 1..4 : ~Check(n, f)}

\* C16: _validate_pdf accepts exactly the files that pass the four checks
\* (exists; 0 < size <= max bytes; signature; pages <= max_pages), the reason
\* it gives is one of the first check that fails (for a file whose pages can
\* be counted, or that fails before they are), reasons of different checks
\* differ, and a zero-byte file fails with the size reason
C16_ValidationOrder ==
    /\ \A m, n \in 1..4 : m # n => ReasonsOf(m) \cap ReasonsOf(n) = {}
    /\ \A k \in DOMAIN pdf_paths :
          pt[k].reason # "" =>
              LET f == pdf_paths[k]
                  first == CHOOSE n \in FailingChecks(f) :
                              \A m \in FailingChecks(f) : n <= m
              IN  /\ pt[k].reason = "passed" <=> ValidationPasses(f)
                  /\ (/\ FailingChecks(f) # {}
                      /\ ~(first = 4 /\ f.pages = Unreadable))
                         => pt[k].reason \in ReasonsOf(first)
                  /\ (f.exists /\ f.st_size = 0)
                         => pt[k].reason = "Empty PDF file"

\* a zero-byte file, which has no signature either, was refused for its size
C16_Witness ==
    \E k \in DOMAIN pdf_paths :
        /\ callpc = "new"
        /\ pt[k].pc = "done"
        /\ pdf_paths[k].exists
        /\ pdf_paths[k].st_size = 0
        /\ ~startswith(pdf_paths[k].head, Magic)
        /\ pt[k].reason = "Empty PDF file"


\* The windows of a list of n words, as lists of words: one for each
\* k = 0, 1, ... with k * s < n, where s = chunk_size - overlap_size
WindowsOf(ws) ==
    LET n == Len(ws)
        s == chunk_cfg.chunk_size - chunk_cfg.overlap_size
    IN  [c \in 1..((n + s - 1) \div s) |->
            SubSeq(ws, (c - 1) * s + 1, Min((c - 1) * s + chunk_cfg.chunk_size, n))]

\* The words of each chunk emitted so far, in output order
ChunkWords == [c \in DOMAIN ck.chunks |-> findall(ck.chunks[c].text)]

\* C17: for a raw text of n words, n > min_chunk_size, _chunk_raw_text emits
\* one chunk for each k >= 0 with k * s < n, s = chunk_size - overlap_size,
\* chunk k holding exactly words[k*s : min(k*s + chunk_size, n)]; for
\* n <= min_chunk_size it emits one chunk that holds the whole text
C17_SlidingWindow ==
    (ck.pc = "returned" /\ pdf.sections = <<>>) =>
        LET ws == findall(pdf.raw_text)
            n == Len(ws)
            s == chunk_cfg.chunk_size - chunk_cfg.overlap_size
        IN  IF n > chunk_cfg.min_chunk_size
            THEN /\ \A k \in 0..n : k * s < n <=> (k + 1) \in DOMAIN ck.chunks
                 /\ ChunkWords = WindowsOf(ws)
            ELSE /\ Len(ck.chunks) = 1
                 /\ ck.chunks[1].text = pdf.raw_text

\* 15 words with chunk_size 10 and overlap 2 gave words[0:10] and words[8:15]
C17_Witness ==
    /\ ck.pc = "returned"
    /\ pdf.sections = <<>>
    /\ chunk_cfg.chunk_size = 10 /\ chunk_cfg.overlap_size = 2
    /\ chunk_cfg.min_chunk_size = 5
    /\ Len(findall(pdf.raw_text)) = 15
    /\ Len(ck.chunks) = 2
    /\ findall(ck.chunks[1].text) = SubSeq(findall(pdf.raw_text), 1, 10)
    /\ findall(ck.chunks[2].text) = SubSeq(findall(pdf.raw_text), 9, 15)

\* The words of section j, and whether it has fewer than 100 of them
SecWords(j) == findall(pdf.sections[j].content)
Small(j) == Len(SecWords(j)) < 100

\* The words of the maximal run of small sections that ends with section j,
\* section by section
RECURSIVE RunEndingAt(_)
RunEndingAt(j) ==
    IF j = 0 \/ ~Small(j) THEN <<>> ELSE Append(RunEndingAt(j - 1), SecWords(j))

RECURSIVE Flat(_)
Flat(lists) == IF lists = <<>> THEN <<>> ELSE Head(lists) \o Flat(Tail(lists))

\* What the claim has section j emit when it is read: nothing if it is small;
\* otherwise the combined chunk of the run that ends right before it, if
\* there is one, and then its own chunk (100 to 800 words) or its windows
EmittedAt(j) ==
    IF Small(j) THEN <<>>
    ELSE (IF j > 1 /\ Small(j - 1) THEN <<Flat(RunEndingAt(j - 1))>> ELSE <<>>)
         \o (IF Len(SecWords(j)) <= 800 THEN <<SecWords(j)>>
             ELSE IF Len(SecWords(j)) <= chunk_cfg.min_chunk_size
                  THEN <<SecWords(j)>>
                  ELSE WindowsOf(SecWords(j)))

RECURSIVE EmittedUpTo(_)
EmittedUpTo(j) == IF j = 0 THEN <<>> ELSE EmittedUpTo(j - 1) \o EmittedAt(j)

\* C18: a section of fewer than 100 words emits nothing when it is read and
\* is buffered; each maximal run of buffered sections becomes one combined
\* chunk with their texts in order, right before the chunks of the next
\* section of 100 words or more, or at the end of the document; a section of
\* 100 to 800 words emits one chunk, a longer one its sliding-window chunks
C18_SectionPolicy ==
    (pdf.sections # <<>> /\ ck.pc \in {"sections", "returned"}) =>
        /\ ChunkWords =
              EmittedUpTo(ck.k) \o
              (IF ck.pc = "returned" /\ Small(ck.k)
               THEN <<Flat(RunEndingAt(ck.k))>> ELSE <<>>)
        /\ ck.pc = "sections" =>
              [b \in DOMAIN ck.buffer |-> findall(ck.buffer[b])]
                  = RunEndingAt(ck.k)

\* a small section was buffered and came out as one combined chunk right
\* before the chunk of the 100-to-800-word section that follows it
C18_Witness ==
    /\ ck.pc = "returned"
    /\ Len(pdf.sections) = 2
    /\ Len(SecWords(1)) = 99
    /\ Len(SecWords(2)) = 800
    /\ Len(ck.chunks) = 2
    /\ ck.chunks[1].section_title = Title("Combined Intro/Small Sections")
    /\ findall(ck.chunks[1].text) = SecWords(1)
    /\ findall(ck.chunks[2].text) = SecWords(2)

\* C19: the chunk_index values of the chunks of a document, in output order,
\* are 0, 1, ..., m-1, on the raw-text path and on the section path
C19_IndexContinuity ==
    \A c \in DOMAIN ck.chunks : ck.chunks[c].chunk_index = c - 1

\* a sliced section followed by a buffered one: the trailing chunk continues
\* the count of the windows
C19_Witness ==
    /\ ck.pc = "returned"
    /\ Len(pdf.sections) = 2
    /\ Len(SecWords(1)) > 800
    /\ Small(2)
    /\ Len(ck.chunks) >= 3
    /\ ck.chunks[Len(ck.chunks)].section_title = Title("Trailing Sections")
    /\ ck.chunks[Len(ck.chunks)].chunk_index = Len(ck.chunks) - 1

\* C20: overlap_with_previous is 0 for the chunk with index 0 and
\* overlap_size for every other chunk; overlap_with_next is overlap_size for
\* every chunk, the last one too
C20_OverlapBookkeeping ==
    \A c \in DOMAIN ck.chunks :
        /\ ck.chunks[c].overlap_with_previous =
              (IF ck.chunks[c].chunk_index = 0 THEN 0 ELSE chunk_cfg.overlap_size)
        /\ ck.chunks[c].overlap_with_next = chunk_cfg.overlap_size

\* a document of several chunks with a positive overlap_size
C20_Witness ==
    /\ ck.pc = "returned"
    /\ chunk_cfg.overlap_size > 0
    /\ Len(ck.chunks) >= 2
    /\ ck.chunks[1].overlap_with_previous = 0
    /\ ck.chunks[2].overlap_with_previous = chunk_cfg.overlap_size
    /\ ck.chunks[Len(ck.chunks)].overlap_with_next = chunk_cfg.overlap_size

\* C21: once the constructor has run, it has raised ValueError exactly when the
\* configuration has overlap_size >= chunk_size; a chunker that exists (one
\* that can chunk, is chunking or has chunked) has overlap_size < chunk_size,
\* and a construction that raised has produced no chunk
C21_ConstructionGuard ==
    /\ ck.pc # "init" =>
          (ck.pc = "ValueError" <=> chunk_cfg.overlap_size >= chunk_cfg.chunk_size)
    /\ ck.pc \in {"new", "sections", "returned"} =>
          chunk_cfg.overlap_size < chunk_cfg.chunk_size
    /\ ck.pc = "ValueError" => ck.chunks = <<>> /\ ~ENABLED ChunkPdf

\* a configuration with overlap_size = chunk_size was refused
C21_Witness ==
    /\ ck.pc = "ValueError"
    /\ chunk_cfg.overlap_size = chunk_cfg.chunk_size

\* the places of the headings of the document, and the places its groups
\* start at: a heading, or 0 for the group before the first heading
HeadingPlaces ==
    {p \in DOMAIN elements : elements[p].label \in {"title", "section_header"}}
GroupStarts == {0} \cup HeadingPlaces
\* the place of the last element of the group that starts at g
GroupEnd(g) ==
    IF \E h \in HeadingPlaces : h > g
    THEN (CHOOSE h \in HeadingPlaces :
             h > g /\ \A k \in HeadingPlaces : k > g => h <= k) - 1
    ELSE Len(elements)
\* the texts of the elements of the group after its heading, but for the
\* elements without text, joined with line breaks
GroupContent(g) ==
    LET HasText(text) == text # <<>>
        group == [p \in 1..(GroupEnd(g) - g) |-> elements[g + p].text]
    IN  join(<<LF>>, SelectSeq(group, HasText))
GroupTitle(g) == IF g = 0 THEN HeaderIntro ELSE strip(elements[g].text)
\* the group's content has a character that is not whitespace
HasWord(g) == \E q \in DOMAIN GroupContent(g) : ~isspace(GroupContent(g)[q])
\* the group is over: the heading after it has been read, or the stream has
\* been read to its end
Over(g) == se.pc = "returned" \/ GroupEnd(g) + 1 <= se.n

\* C22: the sections are those of the groups the stream splits into at its
\* headings, in stream order: a group that is over yields a section if and
\* only if its newline-joined content has a non-whitespace character, titled
\* by the group's heading text ("Header/Intro" before the first heading) and
\* holding that content (less the whitespace around it); no section is blank
C22_SectionMerging ==
    LET yielding == {g \in GroupStarts : Over(g) /\ HasWord(g)}
    IN  /\ Len(se.sections) = Cardinality(yielding)
        /\ \A k \in DOMAIN se.sections :
              LET g == CHOOSE g \in yielding :
                           Cardinality({h \in yielding : h <= g}) = k
              IN  /\ se.sections[k].title = GroupTitle(g)
                  /\ se.sections[k].content = strip(GroupContent(g))
                  /\ findall(se.sections[k].content) # <<>>

\* a stream of two headings in a row and a paragraph has given one section,
\* that of the second heading
C22_Witness ==
    /\ se.pc = "returned"
    /\ Len(elements) = 3
    /\ elements[1].label = "title"
    /\ elements[2].label = "section_header"
    /\ se.sections = <<[title |-> <<2>>, content |-> <<3>>]>>

\* the answer to the last request of _post
LastAnswer == posts[Len(posts)].answer
RateLimited(ans) == ans.kind = "response" /\ ans.status = 429

\* C23: for every attempt a and the base delay b of the service, every value d
\* that _compute_backoff(a) may return has b*2^(a-1) <= d <= 1.3*b*2^(a-1),
\* the smallest being b*2^(a-1) itself, twice that of the attempt before; and
\* the delay _post sleeps for after a timeout, a network error or a 5xx
\* response is such a value
C23_BackoffRange ==
    /\ \A a \in 1..(jina_max_retries + 1) :
          /\ \A d \in compute_backoff(a, base_backoff) :
                /\ base_backoff * 2^(a - 1) <= d
                /\ 10 * d <= 13 * base_backoff * 2^(a - 1)
          /\ base_backoff * 2^(a - 1) \in compute_backoff(a, base_backoff)
          /\ \A d \in compute_backoff(a + 1, base_backoff) :
                \E e \in compute_backoff(a, base_backoff) : 2 * e <= d
    /\ (epc = "sleeping" /\ ~RateLimited(LastAnswer)) =>
          /\ base_backoff * 2^(attempt_ - 1) <= delay_
          /\ 10 * delay_ <= 13 * base_backoff * 2^(attempt_ - 1)

\* with base_backoff 1.0 s, the second attempt timed out and _post sleeps
\* 2.6 s, the most the jitter allows
C23_Witness ==
    /\ epc = "sleeping"
    /\ base_backoff = DefaultBackoff
    /\ attempt_ = 2
    /\ LastAnswer = Timeout
    /\ delay_ = 26

\* C24: while _post sleeps after a 429, the delay is the number of the
\* response's Retry-After header if it has one, whatever the attempt, and
\* base_backoff*2^(attempt-1) if it has none; the header of an earlier
\* response of the call plays no part, and after any other retried answer the
\* delay is the attempt's own backoff
C24_ServerHintOverrides ==
    epc = "sleeping" =>
        IF RateLimited(LastAnswer)
        THEN IF LastAnswer.retry_after # None
             THEN delay_ = LastAnswer.retry_after
             ELSE delay_ = base_backoff * 2^(attempt_ - 1)
        ELSE delay_ \in compute_backoff(attempt_, base_backoff)

\* the first attempt was told to come back in 3 s, the second got a 429
\* without header and _post sleeps 2 s for it
C24_Witness ==
    /\ epc = "sleeping"
    /\ base_backoff = DefaultBackoff
    /\ attempt_ = 2
    /\ posts[1].answer = Hinted(30)
    /\ LastAnswer = Response(429)
    /\ delay_ = 20

\* C28: no request carries an empty text in its input, and no vector is
\* returned for an empty text
C28_EmptyTextSkipped ==
    /\ \A j \in DOMAIN posts : \A k \in DOMAIN posts[j].input :
          posts[j].input[k] # ""
    /\ \A j \in DOMAIN served : \A k \in DOMAIN served[j].data :
          served[j].data[k] # Vec("")
    /\ result.returned => \A k \in DOMAIN result.value : result.value[k] # Vec("")

\* task t goes into the sleep of line 119, and task t issues a GET (it enters
\* the with statement of line 102)
StartsBackoff(t) == dl[t].pc # "backoff" /\ dl'[t].pc = "backoff"
IssuesGet(t) == dl[t].pc # "attempt" /\ dl'[t].pc = "attempt"

\* C25: the wait that follows the k-th failed attempt of a download() call is
\* at least retry_backoff * 2^(k-1)
C25_RetriesFollowBackoff ==
    [][\A t \in Tasks :
          StartsBackoff(t) =>
              dl'[t].sleep >= retry_backoff * 2^(dl'[t].attempt - 1)]_vars

\* C26: every GET of a download() call, the retries too, comes right after a
\* turn of the rate limiter of its own: the timestamp is taken anew, at least
\* rate_limit_delay after the one before
C26_EveryGetRateLimited ==
    [][\A t \in Tasks :
          IssuesGet(t) =>
              /\ elapsed' = 0
              /\ elapsed = None \/ elapsed >= rate_limit_delay]_vars

\* C27: called one call after the other, the rate limiters never sleep in
\* their first call; a later call sleeps if and only if less than the delay
\* has passed since the call before it returned, for what is left of the
\* delay, and returns when that sleep is over; so returns are at least the
\* delay apart.  (_rate_limit returns when the task issues its first GET.)
C27_SequentialRateLimiting ==
    [][/\ (th["a"].pc = "idle" /\ th'["a"] # th["a"]) =>
             /\ th'["a"].pc = "sleep" <=> last_call < delay
             /\ returns = 0 => th'["a"].pc = "idle"
             /\ sinceReturn # None => sinceReturn = last_call
             /\ th'["a"].pc = "sleep" => th'["a"].sleep = delay - last_call
       /\ (th["a"].pc = "sleep" /\ th'["a"].pc # "sleep") =>
             th'["a"].pc = "idle" /\ returns' = returns + 1
       /\ returns' # returns => (sinceReturn = None \/ sinceReturn >= delay)
       /\ (dl["t1"].pc = "idle" /\ dl'["t1"].pc \in {"rate_limit", "attempt"}) =>
             /\ dl'["t1"].pc = "rate_limit" <=>
                    (elapsed # None /\ elapsed < rate_limit_delay)
             /\ connCalls = 0 => dl'["t1"].pc = "attempt"
             /\ dl'["t1"].pc = "rate_limit" =>
                    dl'["t1"].sleep = rate_limit_delay - elapsed
       /\ (dl["t1"].pc = "rate_limit" /\ dl'["t1"].pc # "rate_limit") =>
             dl'["t1"].pc = "attempt"
       /\ (dl["t1"].pc \in {"idle", "rate_limit"} /\ dl'["t1"].pc = "attempt") =>
             /\ elapsed' = 0
             /\ elapsed = None \/ elapsed >= rate_limit_delay]_vars

\* both limiters are in the sleep of a later call, for the one time unit that
\* is left of their delay of two
C27_Witness ==
    /\ dl["t1"].pc = "rate_limit" /\ dl["t1"].sleep = 1 /\ elapsed = 1
    /\ th["a"].pc = "sleep" /\ th["a"].sleep = 1 /\ last_call = 1
    /\ returns = 1

\* the step is a connect() of connector c, a close() of c that finds no
\* client, the return of a close() of c
IsConnect(c) == cn'[c].calls = cn[c].calls + 1 /\ cn'[c].client # None
                    /\ cn'[c].closing = cn[c].closing
IsIdleClose(c) == cn'[c].calls = cn[c].calls + 1 /\ cn'[c].client = None
IsCloseReturn(c) == cn'[c].closing < cn[c].closing

\* C29: a client is created only by a connect() before which no connect() has
\* returned since the construction or since a close() returned; any other
\* connect() returns the client the connect() before it returned; every
\* connect() returns the stored client; when a close() returns the stored
\* client is None; a close() that finds no client closes nothing and changes
\* nothing
C29_LazySessionReuse ==
    [][\A c \in Connectors :
          /\ cn'[c].created # cn[c].created =>
                /\ IsConnect(c)
                /\ cn[c].fresh
                /\ cn'[c].created = cn[c].created + 1
          /\ IsConnect(c) =>
                /\ cn'[c].returned = cn'[c].client
                /\ ~cn[c].fresh =>
                      /\ cn'[c].returned = cn[c].returned
                      /\ cn'[c].created = cn[c].created
          /\ IsCloseReturn(c) => cn'[c].client = None
          /\ IsIdleClose(c) => cn'[c] = [cn[c] EXCEPT !.calls = @ + 1]]_vars

\* connect, connect, close, connect on the Jina connector: two clients were
\* made, one was closed, and the last connect() returned the second
C29_Witness ==
    /\ cn["jina"].calls = 4
    /\ cn["jina"].created = 2
    /\ cn["jina"].acloses = 1
    /\ cn["jina"].closing = 0
    /\ cn["jina"].returned = 2

\* the number of words two chunks really share: the length of the longest
\* suffix of the words of the earlier that is a prefix of the words of the
\* later
Shared(earlier, later) ==
    LET wa == findall(earlier.text)
        wb == findall(later.text)
        Matches(n) == \A q \in 1..n : wa[Len(wa) - n + q] = wb[q]
        most == Min(Len(wa), Len(wb))
    IN  CHOOSE n \in 0..most :
            Matches(n) /\ \A m \in (n + 1)..most : ~Matches(m)

\* C30: two consecutive chunks of a document share as many words as the
\* earlier records in overlap_with_next and the later in
\* overlap_with_previous, which is never more than the later's word_count
C30_RecordedOverlapIsReal ==
    \A c \in 1..(Len(ck.chunks) - 1) :
        /\ Shared(ck.chunks[c], ck.chunks[c + 1]) = ck.chunks[c].overlap_with_next
        /\ Shared(ck.chunks[c], ck.chunks[c + 1])
              = ck.chunks[c + 1].overlap_with_previous
        /\ ck.chunks[c + 1].overlap_with_previous <= ck.chunks[c + 1].word_count

\* C31: every emitted chunk, the combined chunk of buffered small sections
\* included, has at most max(chunk_size, min_chunk_size, 800) words
C31_ChunksSizeBounded ==
    \A c \in DOMAIN ck.chunks :
        ck.chunks[c].word_count
            <= Max(Max(chunk_cfg.chunk_size, chunk_cfg.min_chunk_size), 800)

\* The words of the source: those of the sections in order, or those of
\* raw_text when the document has no sections; each word is a number of its
\* own and the numbers grow along the source (MakeText)
SourceWords ==
    IF pdf.sections = <<>> THEN findall(pdf.raw_text)
    ELSE Flat([j \in DOMAIN pdf.sections |-> SecWords(j)])

\* The words that some emitted chunk holds
ChunkedWords ==
    UNION {{ChunkWords[c][q] : q \in DOMAIN ChunkWords[c]} : c \in DOMAIN ChunkWords}

\* C32: once the chunker has returned, each word of each section (or of
\* raw_text when there are no sections) is in at least one emitted chunk, and
\* the words of the chunks, read in output order, follow the order of the
\* source: inside a chunk they are in source order, and a chunk starts no
\* earlier in the source than the chunk before it
C32_NoWordLost ==
    ck.pc = "returned" =>
        /\ {SourceWords[q] : q \in DOMAIN SourceWords} \subseteq ChunkedWords
        /\ \A c \in DOMAIN ChunkWords :
              \A q \in 1..(Len(ChunkWords[c]) - 1) :
                  ChunkWords[c][q] < ChunkWords[c][q + 1]
        /\ \A c \in 1..(Len(ChunkWords) - 1) :
              (ChunkWords[c] # <<>> /\ ChunkWords[c + 1] # <<>>) =>
                  ChunkWords[c][1] <= ChunkWords[c + 1][1]

\* C33: every chunk the chunker emits holds at least one word, also for a
\* document with an empty raw_text and no sections and for one whose sections
\* are empty or hold only whitespace
C33_NoEmptyChunk ==
    \A c \in DOMAIN ck.chunks :
        /\ ck.chunks[c].word_count >= 1
        /\ findall(ck.chunks[c].text) # <<>>

\* How far the chunker has come: the constructor, _chunk_pdf, the loop over
\* the sections, the return
Rank(pc) ==
    CASE pc = "init" -> 0
      [] pc = "new" -> 1
      [] pc = "sections" -> 2
      [] pc \in {"returned", "ValueError"} -> 3

\* C34: for every configuration the constructor accepts the window start
\* grows by at least one word on each pass of the sliding-window loop and the
\* list of chunks stays within a bound given by the size of the document;
\* every step of the chunker takes it further (to the next stage, or to the
\* next section of a finite list), so it cannot run forever
C34_ChunkingTerminates ==
    /\ [](ck.pc \notin {"init", "ValueError"} =>
            /\ Step(chunk_cfg) >= 1
            /\ Len(ck.chunks) <= Len(SourceWords) + 2 * Len(pdf.sections) + 1)
    /\ [][\/ Rank(ck'.pc) > Rank(ck.pc)
          \/ /\ ck'.pc = ck.pc
             /\ ck'.k = ck.k + 1
             /\ ck'.k <= Len(pdf.sections)]_vars

\* the smallest step there is, one word, over a raw text of 801 words: 801
\* passes of the loop and the chunker returned
C34_Witness ==
    /\ ck.pc = "returned"
    /\ pdf.sections = <<>>
    /\ Step(chunk_cfg) = 1
    /\ Len(findall(pdf.raw_text)) = 801
    /\ Len(ck.chunks) = 801

\* C35: for every max_concurrency the configuration accepts, a call of
\* PDFTransformer.__call__ that has started its tasks returns; a task that
\* waits for a slot of the semaphore gets it and ends; and when the call has
\* returned every slot that was taken has been given back
C35_ParseBatchProgress ==
    /\ (callpc = "gather") ~> (callpc = "returned")
    /\ \A k \in 1..MaxDocs :
          (k \in DOMAIN pdf_paths /\ pt[k].pc = "waiting")
              ~> (k \in DOMAIN pdf_paths /\ pt[k].pc = "done")
    /\ [](callpc = "returned" =>
            /\ semaphore.value = max_concurrency
            /\ semaphore.waiters = <<>>)

\* C36: the records __call__ returns are in the relative order of their
\* inputs in pdf_paths, in whatever order the tasks ended
C36_BatchResultOrder ==
    callpc = "returned" =>
        \A a, b \in DOMAIN final_records :
            a < b => final_records[a].metadata < final_records[b].metadata

\* the second input ended before the first one, both gave a record, and the
\* record of the first input comes first
C36_Witness ==
    /\ callpc = "returned"
    /\ finished = <<2, 1>>
    /\ Len(final_records) = 2
    /\ final_records[1].metadata = 1
    /\ final_records[2].metadata = 2

\* C37: a _post call that is over has slept fewer times than it has issued
\* requests, and _post never sleeps after the last attempt it is allowed: the
\* error of exhausted retries follows the last failed answer without a delay
C37_SleepOnlyBetweenAttempts ==
    /\ (epc \in {"loop", "returned", "raised"} /\ posts # <<>>) =>
            sleeps <= Len(posts) - 1
    /\ ~(epc = "sleeping" /\ attempt_ = jina_max_retries)

\* How many times the loader has indexed a document of event id, and how
\* many times the event has been pushed to the failed queue
IndexedTimes(id) ==
    Cardinality({pos \in {<<a, b>> \in (DOMAIN opensearch) \X (1..worker_batch_size) :
                              b \in DOMAIN opensearch[a]} :
                    opensearch[pos[1]][pos[2]]._id = id})
FailedTimes(id) ==
    Cardinality({f \in DOMAIN redis.failed :
                    loads(redis.failed[f]).activity_id = id})

\* C38: when run_once has finished, each event of the batch it popped is
\* accounted for exactly once: in a list of documents the loader indexed, or
\* pushed once to the failed queue; and the loader is called at most
\* MAX_RETRIES times in one run_once
C38_WorkerLosesNoEvent ==
    /\ wk.pc = "returned" =>
            \A n \in DOMAIN wk.raw_events :
                IndexedTimes(wk.raw_events[n].activity_id)
                    + FailedTimes(wk.raw_events[n].activity_id) = 1
    /\ wk.loads <= MAX_RETRIES

\* The items the pop and pop_batch calls have returned so far, in order
ReturnedItems == Flat([n \in DOMAIN qlog |-> qlog[n].items])

\* C39: pop returns the oldest item of the queue, or None when the queue is
\* empty, and pop_batch(k) the min(k, length) oldest items in the order of
\* their pushes; an item is returned at most once and none is removed
\* without being returned
C39_QueueIsFifo ==
    /\ \A n \in DOMAIN qlog :
          /\ ~qlog[n].raised
          /\ Len(qlog[n].items) = Min(qlog[n].k, qlog[n].size)
    /\ \A m \in DOMAIN ReturnedItems : ReturnedItems[m].activity_id = m
    /\ pushed = Len(ReturnedItems) + Len(redis.main)

====
